---- MODULE Spec2Model ----
(***************************************************************************)
(* Cadence: the capability value migration (migrations/capcons), the       *)
(* deprecated path capability value (runtime/interpreter) and the lazily   *)
(* initialised Test standard library (runtime/stdlib/test.go).             *)
(***************************************************************************)
EXTENDS Integers, Sequences, FiniteSets, TLC

VARIABLES
    storage,        \* cell -> stored value (one value per storage key)
    storage0,       \* the storage the migration started from
    afterFirstRun,  \* the storage as the first migration run left it
    migration,      \* the CapabilityValueMigration struct
    reported,       \* what a recording reporter has received, in order
    run,            \* 1 or 2: which run of the migration is in progress
    pos,            \* the cell the run visits next
    phase,          \* "migrating" | "aborted" | "done" | "idle"
    lastCall,       \* the last call of Migrate, with its result
    member,         \* the last member got from a path capability, and its invocations
    pc,             \* where each caller of the Test standard library is
    callee,         \* the function each caller is in
    initStep,       \* the statement of initTest a caller is at
    testContract,   \* contracts.TestContract, the source that initTest parses and checks
    onceDone,       \* testOnce: done
    onceM,          \* testOnce: the holder of its mutex, 0 when free
    initRuns,       \* how many times initTest was entered
    testContractChecker,
    testContractType,
    testContractInitializerTypes,
    testGlobals,    \* the other package variables initTest assigns
    observed,       \* what the last returning accessor call saw
    contractValue,  \* the result of the last NewTestContract
    semaChecker,    \* the semantic checker: the program it checks, its position, its errors
    hostCall,       \* the calls of assert, fail and expect that a test has made
    encoder,        \* the atree encoder that a path capability is encoded to
    transfer,       \* the last Transfer of a path capability, and what it did
    comment,        \* a comment of the AST, and what its methods return
    applied,        \* the last call of a function without effect, and its result
    matcherTest     \* an invocation of the test function of a matcher

migrationVars ==
    <<storage0, afterFirstRun, migration, reported, run, pos, phase, lastCall>>

testVars ==
    <<pc, callee, initStep, testContract, onceDone, onceM, initRuns, testContractChecker, testContractType,
      testContractInitializerTypes, testGlobals, observed, contractValue>>

langVars == <<semaChecker, hostCall, encoder, transfer, comment, applied, matcherTest>>

vars == <<storage, migrationVars, member, testVars, langVars>>

----------------------------------------------------------------------------
(* Bounds and input universes *)

MaxCells == 2

Cells == 1..MaxCells

Addresses == {1, 2}

Identifiers == {"x"}

----------------------------------------------------------------------------
(* Static types: interpreter.StaticType as a tagged tree *)

NilType == [tag |-> "nil", name |-> "", args |-> <<>>]

PrimitiveStaticType(n) == [tag |-> "primitive", name |-> n, args |-> <<>>]

ReferenceStaticType(n) == [tag |-> "reference", name |-> n, args |-> <<>>]

CompositeStaticType(n) == [tag |-> "composite", name |-> n, args |-> <<>>]

OptionalStaticType(t) == [tag |-> "optional", name |-> "", args |-> <<t>>]

VariableSizedStaticType(t) == [tag |-> "array", name |-> "variable", args |-> <<t>>]

ConstantSizedStaticType(t) == [tag |-> "array", name |-> "constant", args |-> <<t>>]

DictionaryStaticType(k, v) == [tag |-> "dictionary", name |-> "", args |-> <<k, v>>]

\* NewCapabilityStaticType(inter, borrowType): the borrow type may be nil
CapabilityStaticType(bt) == [tag |-> "capability", name |-> "", args |-> <<bt>>]

\* the type assertion oldBorrowType.(*interpreter.ReferenceStaticType)
IsReferenceStaticType(t) == t.tag = "reference"

\* StaticType.ID(): the type's identifier string
TypeID(t) == IF t.tag = "reference" THEN "&" \o t.name ELSE t.name

RefFoo == ReferenceStaticType("Foo")

RefBar == ReferenceStaticType("Bar")

\* the borrow types a stored path capability may carry: none, a reference
\* type, or (corrupt state) a type that is no reference type
BorrowTypes == {NilType, RefFoo, RefBar, PrimitiveStaticType("Int")}

----------------------------------------------------------------------------
(* Values *)

PathDomainUnknown == "unknown"

PathDomainStorage == "storage"

PathDomainPrivate == "private"

PathDomainPublic == "public"

PathDomains == {PathDomainUnknown, PathDomainStorage, PathDomainPrivate, PathDomainPublic}

PathValue(d, i) == [Domain |-> d, Identifier |-> i]

NoPath == PathValue("", "")

\* the id reserved as "invalid"
InvalidCapabilityID == 0

\* NewUnmeteredPathCapabilityValue(borrowType, address, path)
PathCapabilityValue(bt, a, p) ==
    [kind |-> "pathcap", address |-> a, Path |-> p, BorrowType |-> bt, ID |-> InvalidCapabilityID, b |-> FALSE]

\* NewUnmeteredCapabilityValue(id, address, borrowType)
NewUnmeteredCapabilityValue(id, a, bt) ==
    [kind |-> "idcap", address |-> a, Path |-> NoPath, BorrowType |-> bt, ID |-> id, b |-> FALSE]

BoolValue(x) ==
    [kind |-> "bool", address |-> 0, Path |-> NoPath, BorrowType |-> NilType, ID |-> 0, b |-> x]

\* "no value": Go's nil interpreter.Value
NoValue ==
    [kind |-> "nil", address |-> 0, Path |-> NoPath, BorrowType |-> NilType, ID |-> 0, b |-> FALSE]

PathCapabilityValues ==
    {PathCapabilityValue(bt, a, PathValue(d, i)) :
        bt \in BorrowTypes, a \in Addresses, d \in PathDomains, i \in Identifiers}

StoredValues ==
    PathCapabilityValues
        \cup {NewUnmeteredCapabilityValue(7, 1, RefFoo), BoolValue(TRUE)}

\* a plausible slip: the type switch tests the CapabilityValue interface,
\* which the id capability implements too
IsAnyCapabilityValue(v) == v.kind \in {"pathcap", "idcap"}

\* value.(*interpreter.PathCapabilityValue)
IsPathCapabilityValue(v) == v.kind = "pathcap"

\* PathCapabilityValue.StaticType, and the static type of the other values
StaticType(v) ==
    CASE v.kind = "pathcap" -> CapabilityStaticType(v.BorrowType)
      [] v.kind = "idcap" -> CapabilityStaticType(v.BorrowType)
      [] v.kind = "bool" -> PrimitiveStaticType("Bool")
      [] OTHER -> NilType

\* PathCapabilityValue.AddressPath
AddressPath(v) == [Address |-> v.address, Path |-> v.Path]

----------------------------------------------------------------------------
(* The capability mappings built by the preceding link migration *)

\* PathCapabilityMapping.Get: (id, borrowType, ok)
PathCapabilityMappingHas(mapping, addressPath) == addressPath \in DOMAIN mapping

PathCapabilityMappingGet(mapping, addressPath) == mapping[addressPath]

\* PathTypeCapabilityMapping.Get: (id, ok), keyed by address path and type id
PathTypeCapabilityMappingHas(mapping, addressPath, typeID) ==
    <<addressPath, typeID>> \in DOMAIN mapping

PathTypeCapabilityMappingGet(mapping, addressPath, typeID) ==
    mapping[<<addressPath, typeID>>]

AddressPathsOf(addresses, domains) ==
    {[Address |-> a, Path |-> PathValue(d, i)] :
        a \in addresses, d \in domains, i \in Identifiers}

\* the tables a link migration of the accounts in `linked` leaves behind:
\* every capability controller has its own id
PrivatePublicMappingOf(linked) ==
    [ap \in AddressPathsOf(linked, {PathDomainPrivate, PathDomainPublic}) |->
        IF ap.Path.Domain = PathDomainPublic
        THEN [id |-> 10 * ap.Address + 1, borrowType |-> RefBar]
        ELSE [id |-> 10 * ap.Address + 2, borrowType |-> RefFoo]]

StorageMappingOf(linked) ==
    [k \in AddressPathsOf(linked, {PathDomainStorage}) \X {"&Foo", "Int"} |->
        IF k[2] = "&Foo" THEN 10 * k[1].Address + 3 ELSE 10 * k[1].Address + 4]

StorageWithoutTypeMappingOf(linked) ==
    [ap \in AddressPathsOf(linked, {PathDomainStorage}) |->
        [id |-> 10 * ap.Address + 5, borrowType |-> RefBar]]

NilReporter == "nil"

Reporters == {NilReporter, "recording"}

\* type CapabilityValueMigration struct
CapabilityValueMigration(linked, reporter) ==
    [PrivatePublicCapabilityMapping |-> PrivatePublicMappingOf(linked),
     StorageCapabilityMapping |-> StorageMappingOf(linked),
     StorageCapabilityWithoutTypeMapping |-> StorageWithoutTypeMappingOf(linked),
     Reporter |-> reporter]

StorageKey(c) == [Address |-> ((c - 1) % Cardinality(Addresses)) + 1, Key |-> "storage"]

----------------------------------------------------------------------------
(* CapabilityMigrationReporter: the calls made to the reporter *)

MigratedPathCapability(accountAddress, addressPath, borrowType, capabilityID) ==
    [event |-> "MigratedPathCapability", accountAddress |-> accountAddress,
     addressPath |-> addressPath, borrowType |-> borrowType, capabilityID |-> capabilityID]

MissingCapabilityID(accountAddress, addressPath) ==
    [event |-> "MissingCapabilityID", accountAddress |-> accountAddress,
     addressPath |-> addressPath, borrowType |-> NilType, capabilityID |-> InvalidCapabilityID]

----------------------------------------------------------------------------
(* CapabilityValueMigration.Migrate.  A result is                          *)
(*   outcome "replaced": (value, nil); "nochange": (nil, nil);             *)
(*   "abort": panic with an unexpected error,                              *)
(* with the calls it made to the reporter, in order.                       *)

\* a plausible slip: the missing id is not reported
ReturnMissingWithoutReport(reporter, storageKey, capabilityAddressPath) ==
    [outcome |-> "nochange", value |-> NoValue, events |-> <<>>]

\* a plausible slip: "return nil, nil" sits inside "if reporter != nil", so
\* that without a reporter the function goes on with the zero id
ReturnMissingOnlyWithReporter(reporter, storageKey, capabilityAddressPath) ==
    IF reporter # NilReporter
    THEN [outcome |-> "nochange",
          value |-> NoValue,
          events |-> <<MissingCapabilityID(storageKey.Address, capabilityAddressPath)>>]
    ELSE [outcome |-> "replaced",
          value |-> NewUnmeteredCapabilityValue(
                        InvalidCapabilityID, capabilityAddressPath.Address, RefFoo),
          events |-> <<>>]

\* a plausible slip: the account of the capability is reported in the place
\* of the account of the storage key
ReturnMissingOfCapabilityAccount(reporter, storageKey, capabilityAddressPath) ==
    [outcome |-> "nochange",
     value |-> NoValue,
     events |-> IF reporter # NilReporter
                THEN <<MissingCapabilityID(capabilityAddressPath.Address,
                                           capabilityAddressPath)>>
                ELSE <<>>]

\* if !ok { if reporter != nil { reporter.MissingCapabilityID(...) }; return nil, nil }
ReturnMissingCapabilityID(reporter, storageKey, capabilityAddressPath) ==
    [outcome |-> "nochange",
     value |-> NoValue,
     events |-> IF reporter # NilReporter
                THEN <<MissingCapabilityID(storageKey.Address, capabilityAddressPath)>>
                ELSE <<>>]

\* panic(errors.NewUnexpectedError(...))
PanicUnexpected == [outcome |-> "abort", value |-> NoValue, events |-> <<>>]

\* a plausible slip: the controller's borrow type is not adopted
KeepOldBorrowType(oldBorrowType, controllerBorrowType) == oldBorrowType

\* if oldBorrowType == nil { oldBorrowType = controllerBorrowType }
AdoptControllerBorrowType(oldBorrowType, controllerBorrowType) ==
    IF oldBorrowType = NilType THEN controllerBorrowType ELSE oldBorrowType

\* a plausible slip: the account of the storage key is used
StorageKeyAddress(oldCapability, storageKey) == storageKey.Address

\* the address given to the new capability: oldCapability.Address
NewCapabilityAddress(oldCapability, storageKey) == oldCapability.address

\* a plausible slip: the type assertion's ok is not tested
BorrowTypeUnchecked(oldBorrowType) == TRUE

\* newBorrowType, ok := oldBorrowType.(*interpreter.ReferenceStaticType)
BorrowTypeIsReference(oldBorrowType) == IsReferenceStaticType(oldBorrowType)

\* the tail of migratePathCapabilityValue, after the switch
NewCapabilityFor(reporter, oldCapability, storageKey, capabilityID, oldBorrowType) ==
    IF ~BorrowTypeIsReference(oldBorrowType)
    THEN PanicUnexpected
    ELSE [outcome |-> "replaced",
          value |-> NewUnmeteredCapabilityValue(
                        capabilityID,
                        NewCapabilityAddress(oldCapability, storageKey),
                        oldBorrowType),
          events |-> IF reporter # NilReporter
                     THEN <<MigratedPathCapability(
                                storageKey.Address,
                                AddressPath(oldCapability),
                                oldBorrowType,
                                capabilityID)>>
                     ELSE <<>>]

\* a plausible slip: a storage capability with a borrow type that misses the
\* typed table is looked up in the table without types
migrateWithUntypedFallback(m, oldCapability, storageKey) ==
    LET reporter == m.Reporter
        capabilityAddressPath == AddressPath(oldCapability)
        oldBorrowType == oldCapability.BorrowType
        targetPath == capabilityAddressPath.Path
    IN  CASE targetPath.Domain \in {PathDomainPrivate, PathDomainPublic} ->
               IF ~PathCapabilityMappingHas(m.PrivatePublicCapabilityMapping, capabilityAddressPath)
               THEN ReturnMissingCapabilityID(reporter, storageKey, capabilityAddressPath)
               ELSE LET entry == PathCapabilityMappingGet(
                                     m.PrivatePublicCapabilityMapping, capabilityAddressPath)
                    IN  NewCapabilityFor(reporter, oldCapability, storageKey, entry.id,
                            AdoptControllerBorrowType(oldBorrowType, entry.borrowType))
          [] targetPath.Domain = PathDomainStorage ->
               IF oldBorrowType # NilType
               THEN IF ~PathTypeCapabilityMappingHas(
                            m.StorageCapabilityMapping, capabilityAddressPath, TypeID(oldBorrowType))
                    THEN IF ~PathCapabilityMappingHas(
                                 m.StorageCapabilityWithoutTypeMapping, capabilityAddressPath)
                         THEN ReturnMissingCapabilityID(reporter, storageKey,
                                                        capabilityAddressPath)
                         ELSE NewCapabilityFor(reporter, oldCapability, storageKey,
                                  PathCapabilityMappingGet(
                                      m.StorageCapabilityWithoutTypeMapping,
                                      capabilityAddressPath).id,
                                  oldBorrowType)
                    ELSE NewCapabilityFor(reporter, oldCapability, storageKey,
                            PathTypeCapabilityMappingGet(
                                m.StorageCapabilityMapping, capabilityAddressPath, TypeID(oldBorrowType)),
                            oldBorrowType)
               ELSE IF ~PathCapabilityMappingHas(
                            m.StorageCapabilityWithoutTypeMapping, capabilityAddressPath)
                    THEN ReturnMissingCapabilityID(reporter, storageKey, capabilityAddressPath)
                    ELSE LET entry == PathCapabilityMappingGet(
                                          m.StorageCapabilityWithoutTypeMapping, capabilityAddressPath)
                         IN  NewCapabilityFor(reporter, oldCapability, storageKey, entry.id,
                                 entry.borrowType)
          [] OTHER -> PanicUnexpected

migratePathCapabilityValue(m, oldCapability, storageKey) ==
    LET reporter == m.Reporter
        capabilityAddressPath == AddressPath(oldCapability)
        oldBorrowType == oldCapability.BorrowType
        targetPath == capabilityAddressPath.Path
    IN  CASE targetPath.Domain \in {PathDomainPrivate, PathDomainPublic} ->
               IF ~PathCapabilityMappingHas(m.PrivatePublicCapabilityMapping, capabilityAddressPath)
               THEN ReturnMissingCapabilityID(reporter, storageKey, capabilityAddressPath)
               ELSE LET entry == PathCapabilityMappingGet(
                                     m.PrivatePublicCapabilityMapping, capabilityAddressPath)
                    IN  NewCapabilityFor(reporter, oldCapability, storageKey, entry.id,
                            AdoptControllerBorrowType(oldBorrowType, entry.borrowType))
          [] targetPath.Domain = PathDomainStorage ->
               IF oldBorrowType # NilType
               THEN IF ~PathTypeCapabilityMappingHas(
                            m.StorageCapabilityMapping, capabilityAddressPath, TypeID(oldBorrowType))
                    THEN ReturnMissingCapabilityID(reporter, storageKey, capabilityAddressPath)
                    ELSE NewCapabilityFor(reporter, oldCapability, storageKey,
                            PathTypeCapabilityMappingGet(
                                m.StorageCapabilityMapping, capabilityAddressPath, TypeID(oldBorrowType)),
                            oldBorrowType)
               ELSE IF ~PathCapabilityMappingHas(
                            m.StorageCapabilityWithoutTypeMapping, capabilityAddressPath)
                    THEN ReturnMissingCapabilityID(reporter, storageKey, capabilityAddressPath)
                    ELSE LET entry == PathCapabilityMappingGet(
                                          m.StorageCapabilityWithoutTypeMapping, capabilityAddressPath)
                         IN  NewCapabilityFor(reporter, oldCapability, storageKey, entry.id,
                                 entry.borrowType)
          [] OTHER -> PanicUnexpected

\* the type switch of Migrate: only a path capability is migrated
Migrate(m, storageKey, value) ==
    IF IsPathCapabilityValue(value)
    THEN migratePathCapabilityValue(m, value, storageKey)
    ELSE [outcome |-> "nochange", value |-> NoValue, events |-> <<>>]

\* PathCapabilityMapping.Get and PathTypeCapabilityMapping.Get: the mapping
\* after a lookup
MappingAfterGet(mapping, key) == mapping

\* a plausible slip: an entry of the private/public mapping is taken out of
\* it once it has been used
MigrationConsumingEntries(m, storageKey, value) ==
    IF /\ IsPathCapabilityValue(value)
       /\ PathCapabilityMappingHas(m.PrivatePublicCapabilityMapping, AddressPath(value))
    THEN [m EXCEPT !.PrivatePublicCapabilityMapping =
                       [k \in DOMAIN @ \ {AddressPath(value)} |-> @[k]]]
    ELSE m

\* the migration after a call of Migrate: the statements of Migrate that
\* reach a table are the three calls of Get, one on each path of the switch
MigrationAfterMigrate(m, storageKey, value) ==
    IF ~IsPathCapabilityValue(value)
    THEN m
    ELSE LET capabilityAddressPath == AddressPath(value)
             oldBorrowType == value.BorrowType
             targetPath == capabilityAddressPath.Path
         IN  CASE targetPath.Domain \in {PathDomainPrivate, PathDomainPublic} ->
                    [m EXCEPT !.PrivatePublicCapabilityMapping =
                                  MappingAfterGet(@, capabilityAddressPath)]
               [] targetPath.Domain = PathDomainStorage ->
                    IF oldBorrowType # NilType
                    THEN [m EXCEPT !.StorageCapabilityMapping =
                                       MappingAfterGet(@, <<capabilityAddressPath,
                                                            TypeID(oldBorrowType)>>)]
                    ELSE [m EXCEPT !.StorageCapabilityWithoutTypeMapping =
                                       MappingAfterGet(@, capabilityAddressPath)]
               [] OTHER -> m

----------------------------------------------------------------------------
(* CanSkipCapabilityValueMigration *)

\* the primitive static types the inner switch names
SkippedPrimitiveStaticTypes ==
    {"Bool", "Void", "Address", "MetaType", "Block", "String", "Character"}

\* sema.IsSubType(semaType, sema.NumberType), on the primitive static types
NumberPrimitiveStaticTypes ==
    {"Number", "SignedNumber", "Integer", "SignedInteger", "FixedPoint", "SignedFixedPoint",
     "Int", "Int8", "Int64", "UInt", "UInt8", "UInt64", "Word8", "Word64", "Fix64", "UFix64"}

\* sema.IsSubType(semaType, sema.PathType), on the primitive static types
PathPrimitiveStaticTypes ==
    {"Path", "StoragePath", "CapabilityPath", "PublicPath", "PrivatePath"}

\* PrimitiveStaticType.IsDeprecated
DeprecatedPrimitiveStaticTypes ==
    {"AuthAccount", "PublicAccount", "AuthAccountContracts", "PublicAccountContracts",
     "AuthAccountKeys", "PublicAccountKeys", "AccountKey"}

\* sema.IsSubType(valueType.SemaType(), superType) for a primitive static
\* type and the super types Number and Path: the never type is the bottom type
SemaIsSubType(name, superType) ==
    \/ name = "Never"
    \/ superType = "Number" /\ name \in NumberPrimitiveStaticTypes
    \/ superType = "Path" /\ name \in PathPrimitiveStaticTypes

\* a plausible slip: the capability static type is taken for skippable
CanSkipCapabilityStaticTypeToo(valueType) ==
    \/ valueType.tag = "capability"
    \/ valueType.tag = "primitive" /\ valueType.name \in SkippedPrimitiveStaticTypes

RECURSIVE CanSkipDictionaryByValueType(_)
\* a plausible slip: the key type of a dictionary is not looked at
CanSkipDictionaryByValueType(valueType) ==
    CASE valueType.tag = "dictionary" -> CanSkipDictionaryByValueType(valueType.args[2])
      [] valueType.tag = "array" -> CanSkipDictionaryByValueType(valueType.args[1])
      [] valueType.tag = "optional" -> CanSkipDictionaryByValueType(valueType.args[1])
      [] valueType.tag = "capability" -> FALSE
      [] valueType.tag = "primitive" ->
             IF valueType.name = "Capability" THEN FALSE
             ELSE IF valueType.name \in SkippedPrimitiveStaticTypes THEN TRUE
             ELSE /\ valueType.name \notin DeprecatedPrimitiveStaticTypes
                  /\ \/ SemaIsSubType(valueType.name, "Number")
                     \/ SemaIsSubType(valueType.name, "Path")
      [] OTHER -> FALSE

RECURSIVE CanSkipCapabilityValueMigration(_)
CanSkipCapabilityValueMigration(valueType) ==
    CASE valueType.tag = "dictionary" ->
             /\ CanSkipCapabilityValueMigration(valueType.args[1])
             /\ CanSkipCapabilityValueMigration(valueType.args[2])
      [] valueType.tag = "array" -> CanSkipCapabilityValueMigration(valueType.args[1])
      [] valueType.tag = "optional" -> CanSkipCapabilityValueMigration(valueType.args[1])
      [] valueType.tag = "capability" -> FALSE
      [] valueType.tag = "primitive" ->
             IF valueType.name = "Capability" THEN FALSE
             ELSE IF valueType.name \in SkippedPrimitiveStaticTypes THEN TRUE
             ELSE /\ valueType.name \notin DeprecatedPrimitiveStaticTypes
                  /\ \/ SemaIsSubType(valueType.name, "Number")
                     \/ SemaIsSubType(valueType.name, "Path")
      [] OTHER -> FALSE

\* CapabilityValueMigration.CanSkip
CanSkip(valueType) == CanSkipCapabilityValueMigration(valueType)

\* the static types that the elements of a container may have

MaxDepth == 2

InterfaceStaticType(n) == [tag |-> "interface", name |-> n, args |-> <<>>]

PrimitiveStaticTypeNames ==
    SkippedPrimitiveStaticTypes
        \cup {"Int", "UInt8", "UFix64", "Number", "Path", "StoragePath", "PublicPath",
              "Never", "AnyStruct", "AnyResource", "Capability", "AuthAccount",
              "AccountKey"}

LeafStaticTypes ==
    {PrimitiveStaticType(n) : n \in PrimitiveStaticTypeNames}
        \cup {CompositeStaticType("Foo"), InterfaceStaticType("I"), RefFoo,
              ReferenceStaticType("Capability"),
              CapabilityStaticType(NilType), CapabilityStaticType(RefFoo)}

DictionaryKeyTypes ==
    {PrimitiveStaticType(n) : n \in {"String", "Int", "Never", "AnyStruct", "Capability"}}

RECURSIVE StaticTypesOfDepth(_)
StaticTypesOfDepth(n) ==
    IF n = 0
    THEN LeafStaticTypes
    ELSE LET inner == StaticTypesOfDepth(n - 1)
         IN  inner
                 \cup {OptionalStaticType(t) : t \in inner}
                 \cup {VariableSizedStaticType(t) : t \in inner}
                 \cup {ConstantSizedStaticType(t) : t \in inner}
                 \cup {DictionaryStaticType(k, v) : k \in DictionaryKeyTypes, v \in inner}
                 \cup {DictionaryStaticType(v, k) : k \in DictionaryKeyTypes,
                                                   v \in inner \cap LeafStaticTypes}

\* a call of a function that has no effect: its arguments and its result
Application(function, arguments, result) ==
    [function |-> function, arguments |-> arguments, result |-> result]

NoApplication == Application("", <<>>, FALSE)

\* the migration asks whether the values of a static type can be skipped
AskCanSkip ==
    /\ applied.function = "valueType"
    /\ applied' = Application("CanSkip", applied.arguments, CanSkip(applied.arguments[1]))
    /\ UNCHANGED <<storage, migrationVars, member, testVars, semaChecker, hostCall,
                   encoder, transfer, comment, matcherTest>>


----------------------------------------------------------------------------
(* PathCapabilityValue.GetMember and the functions it returns *)

MaxInvocations == 2

\* interpreter.Nil, the Cadence value nil
Nil ==
    [kind |-> "nilvalue", address |-> 0, Path |-> NoPath, BorrowType |-> NilType, ID |-> 0, b |-> FALSE]

FalseValue == BoolValue(FALSE)

AddressValue(a) ==
    [kind |-> "address", address |-> a, Path |-> NoPath, BorrowType |-> NilType, ID |-> 0, b |-> FALSE]

UInt64Value(n) ==
    [kind |-> "uint64", address |-> 0, Path |-> NoPath, BorrowType |-> NilType, ID |-> n, b |-> FALSE]

\* a reference to the value stored in an account
ReferenceValue(a) ==
    [kind |-> "reference", address |-> a, Path |-> NoPath, BorrowType |-> NilType, ID |-> 0, b |-> FALSE]

CapabilityTypeBorrowFunctionName == "borrow"

CapabilityTypeCheckFunctionName == "check"

CapabilityTypeAddressFieldName == "address"

CapabilityTypeIDFieldName == "id"

MemberNames ==
    {CapabilityTypeBorrowFunctionName, CapabilityTypeCheckFunctionName,
     CapabilityTypeAddressFieldName, CapabilityTypeIDFieldName, "other"}

\* interpreter.MustConvertStaticToSemaType(v.BorrowType).(*sema.ReferenceType):
\* nil when the capability has no borrow type or it is no reference type
SemaBorrowType(v) ==
    IF v.BorrowType # NilType /\ IsReferenceStaticType(v.BorrowType)
    THEN [tag |-> "sema.ReferenceType", name |-> v.BorrowType.name, args |-> <<>>]
    ELSE NilType

\* the invocation a host function receives: the bound capability and the
\* interpreter, through which the storage can be reached
Invocation(self, stored) == [Self |-> self, Storage |-> stored]

\* a plausible slip: the path capability is borrowed like an id capability,
\* through the storage of its account
BorrowFromStorage(invocation) ==
    IF \E c \in DOMAIN invocation.Storage :
           /\ StorageKey(c).Address = invocation.Self.address
           /\ invocation.Storage[c].kind = "bool"
    THEN ReferenceValue(invocation.Self.address)
    ELSE Nil

\* newBorrowFunction: func(_ Invocation) Value { return Nil }
PathCapabilityBorrowFunction(invocation) == Nil

\* newCheckFunction: func(_ Invocation) Value { return FalseValue }
PathCapabilityCheckFunction(invocation) == FalseValue

\* NewBoundHostFunctionValue(interpreter, v, functionType, function)
BoundHostFunctionValue(function, self, borrowType) ==
    [kind |-> function, value |-> NoValue, self |-> self, borrowType |-> borrowType]

GetMember(v, name) ==
    CASE name = CapabilityTypeBorrowFunctionName ->
             BoundHostFunctionValue("borrow", v, SemaBorrowType(v))
      [] name = CapabilityTypeCheckFunctionName ->
             BoundHostFunctionValue("check", v, SemaBorrowType(v))
      [] name = CapabilityTypeAddressFieldName ->
             [kind |-> "value", value |-> AddressValue(v.address), self |-> NoValue,
              borrowType |-> NilType]
      [] name = CapabilityTypeIDFieldName ->
             [kind |-> "value", value |-> UInt64Value(InvalidCapabilityID), self |-> NoValue,
              borrowType |-> NilType]
      [] OTHER ->
             [kind |-> "none", value |-> NoValue, self |-> NoValue, borrowType |-> NilType]

\* the invocation of a bound host function
InvokeFunction(function, invocation) ==
    IF function.kind = "borrow"
    THEN PathCapabilityBorrowFunction(invocation)
    ELSE PathCapabilityCheckFunction(invocation)

NoMember ==
    [cell |-> 0, name |-> "", got |-> GetMember(NoValue, "other"), calls |-> 0, result |-> NoValue]

\* the values of the member operations' storage
SampleValues ==
    {PathCapabilityValue(bt, 1, PathValue(PathDomainPublic, "x")) : bt \in BorrowTypes}
        \cup {PathCapabilityValue(NilType, 2, PathValue(PathDomainStorage, "x")),
              NewUnmeteredCapabilityValue(7, 1, RefFoo), BoolValue(TRUE)}


----------------------------------------------------------------------------
(* The Test standard library: the singleton that testOnce guards *)

MaxProcs == 2

Procs == 1..MaxProcs

\* the function globals that initTest assigns, in the order it assigns them
MatcherFunctionNames ==
    <<"expect", "newMatcher", "equal", "beEmpty", "haveElementCount", "contain",
      "beGreaterThan", "beLessThan">>

\* the members that initTestContractTypeFunctions sets, whose function values
\* exist before initTest runs or are made on demand
NativeFunctionNames == {"assert", "fail", "newEmulatorBlockchain", "readFile"}

RangeOf(seq) == {seq[i] : i \in DOMAIN seq}

TestFunctionNames == NativeFunctionNames \cup RangeOf(MatcherFunctionNames)

\* the statements of initTest, in order
InitTestSteps ==
    <<"ParseProgram", "NewChecker", "Check", "ContractType", "InitializerTypes", "EmulatorBackend">>
        \o MatcherFunctionNames
        \o <<"NewEmulatorBlockchainFunctionType", "ContractTypeFunctions", "SetCompositeType">>

Accessors == {"TestContractChecker", "TestContractType", "TestContractInitializerTypes"}

\* the functions that go through testOnce.Do(initTest)
OnceCallers == Accessors \cup {"NewTestContract", "NewTestInterpreterContractValueHandler"}

Callees == OnceCallers \cup {"TestCheckerContractValueHandler"} \cup TestFunctionNames

NilChecker == [assigned |-> FALSE, checked |-> FALSE, compositeTypes |-> {}]

NilContractType == [assigned |-> FALSE, Members |-> {}]

NilInitializerTypes == [assigned |-> FALSE, types |-> <<>>]

NilGlobals ==
    [functions |-> {"assert", "fail"}, emulatorBackend |-> FALSE,
     newEmulatorBlockchainFunctionType |-> FALSE]

CheckerAfter(step, checker) ==
    CASE step = "NewChecker" -> [assigned |-> TRUE, checked |-> FALSE, compositeTypes |-> {}]
      [] step = "Check" -> [checker EXCEPT !.checked = TRUE]
      [] step = "SetCompositeType" ->
             [checker EXCEPT !.compositeTypes = @ \cup {"EmulatorBackend"}]
      [] OTHER -> checker

ContractTypeAfter(step, type) ==
    CASE step = "ContractType" -> [assigned |-> TRUE, Members |-> {}]
      [] step \in RangeOf(MatcherFunctionNames) -> [type EXCEPT !.Members = @ \cup {step}]
      [] step = "ContractTypeFunctions" -> [type EXCEPT !.Members = @ \cup NativeFunctionNames]
      [] OTHER -> type

InitializerTypesAfter(step, types) ==
    IF step = "InitializerTypes" THEN [assigned |-> TRUE, types |-> <<>>] ELSE types

GlobalsAfter(step, globals) ==
    CASE step = "EmulatorBackend" -> [globals EXCEPT !.emulatorBackend = TRUE]
      [] step \in RangeOf(MatcherFunctionNames) -> [globals EXCEPT !.functions = @ \cup {step}]
      [] step = "NewEmulatorBlockchainFunctionType" ->
             [globals EXCEPT !.newEmulatorBlockchainFunctionType = TRUE]
      [] OTHER -> globals

\* contracts.TestContract, the embedded source of the Test contract: it parses
\* and type-checks
TestContract == "valid"

\* whether a statement of initTest panics on a source of the Test contract
InitTestPanics(source, step) ==
    \/ step = "ParseProgram" /\ source = "unparsable"
    \/ step = "Check" /\ source = "illtyped"

NoObservation ==
    [callee |-> "", checker |-> NilChecker, type |-> NilContractType,
     initializerTypes |-> NilInitializerTypes]

NoContractValue == [status |-> "none", Functions |-> [n \in TestFunctionNames |-> FALSE]]

TestIdle ==
    /\ pc = [p \in Procs |-> "idle"]
    /\ callee = [p \in Procs |-> ""]
    /\ initStep = [p \in Procs |-> 0]
    /\ onceDone = FALSE
    /\ onceM = 0
    /\ initRuns = 0
    /\ testContract = TestContract
    /\ testContractChecker = NilChecker
    /\ testContractType = NilContractType
    /\ testContractInitializerTypes = NilInitializerTypes
    /\ testGlobals = NilGlobals
    /\ observed = NoObservation
    /\ contractValue = NoContractValue

otherVars == <<storage, migrationVars, member, langVars>>

singletonVars == <<testContractChecker, testContractType, testContractInitializerTypes, testGlobals>>

\* a call of one of the library's functions begins
Call(p) ==
    /\ pc[p] = "idle"
    /\ \E f \in Callees :
           /\ f \in TestFunctionNames =>
                  contractValue.status = "ok" /\ contractValue.Functions[f]
           /\ callee' = [callee EXCEPT ![p] = f]
           /\ pc' = [pc EXCEPT ![p] =
                        IF f \in OnceCallers THEN "do"
                        ELSE IF f \in TestFunctionNames THEN "invoke" ELSE "handler"]
    /\ UNCHANGED <<initStep, onceDone, onceM, initRuns, testContract, singletonVars, observed,
                   contractValue, otherVars>>

\* a plausible slip: initTest() is called directly, not through testOnce
CallInitTestDirectly(p) ==
    /\ pc[p] = "do"
    /\ pc' = [pc EXCEPT ![p] = "init"]
    /\ initStep' = [initStep EXCEPT ![p] = 1]
    /\ initRuns' = initRuns + 1
    /\ initRuns < MaxProcs + 1
    /\ UNCHANGED <<callee, onceDone, onceM, testContract, singletonVars, observed, contractValue,
                   otherVars>>

\* a plausible slip: NewTestContract does not go through testOnce
OnceDoNotInNewTestContract(p) ==
    /\ pc[p] = "do"
    /\ pc' = [pc EXCEPT ![p] =
                 IF callee[p] \notin Accessors THEN "construct"
                 ELSE IF onceDone THEN "return" ELSE "lock"]
    /\ UNCHANGED <<callee, initStep, onceDone, onceM, initRuns, testContract, singletonVars,
                   observed, contractValue, otherVars>>

\* sync.Once.Do: if o.done.Load() == 0 { o.doSlow(f) }
OnceDo(p) ==
    /\ pc[p] = "do"
    /\ pc' = [pc EXCEPT ![p] = IF onceDone THEN "return" ELSE "lock"]
    /\ UNCHANGED <<callee, initStep, onceDone, onceM, initRuns, testContract, singletonVars,
                   observed, contractValue, otherVars>>

\* a plausible slip: the mutex is not waited for
OnceLockNoWait(p) ==
    /\ pc[p] = "lock"
    /\ onceM' = p
    /\ pc' = [pc EXCEPT ![p] = "slow"]
    /\ UNCHANGED <<callee, initStep, onceDone, initRuns, testContract, singletonVars, observed,
                   contractValue, otherVars>>

\* doSlow: o.m.Lock()
OnceLock(p) ==
    /\ pc[p] = "lock"
    /\ onceM = 0
    /\ onceM' = p
    /\ pc' = [pc EXCEPT ![p] = "slow"]
    /\ UNCHANGED <<callee, initStep, onceDone, initRuns, testContract, singletonVars, observed,
                   contractValue, otherVars>>

\* doSlow: if o.done.Load() == 0 { defer o.done.Store(1); f() }
OnceDoSlow(p) ==
    /\ pc[p] = "slow"
    /\ IF onceDone
       THEN /\ pc' = [pc EXCEPT ![p] = "unlock"]
            /\ UNCHANGED <<initStep, initRuns>>
       ELSE /\ pc' = [pc EXCEPT ![p] = "init"]
            /\ initStep' = [initStep EXCEPT ![p] = 1]
            /\ initRuns' = initRuns + 1
            /\ initRuns < MaxProcs + 1
    /\ UNCHANGED <<callee, onceDone, onceM, testContract, singletonVars, observed, contractValue,
                   otherVars>>

\* one statement of initTest; a panic leaves through the deferred calls of doSlow
InitTestStep(p) ==
    /\ pc[p] = "init"
    /\ LET step == InitTestSteps[initStep[p]]
       IN  IF InitTestPanics(testContract, step)
           THEN /\ pc' = [pc EXCEPT ![p] = "panic_storeDone"]
                /\ UNCHANGED <<initStep, singletonVars>>
           ELSE /\ testContractChecker' = CheckerAfter(step, testContractChecker)
                /\ testContractType' = ContractTypeAfter(step, testContractType)
                /\ testContractInitializerTypes' =
                       InitializerTypesAfter(step, testContractInitializerTypes)
                /\ testGlobals' = GlobalsAfter(step, testGlobals)
                /\ IF initStep[p] = Len(InitTestSteps)
                   THEN /\ pc' = [pc EXCEPT ![p] = "storeDone"]
                        /\ initStep' = [initStep EXCEPT ![p] = 0]
                   ELSE /\ pc' = pc
                        /\ initStep' = [initStep EXCEPT ![p] = @ + 1]
    /\ UNCHANGED <<callee, onceDone, onceM, initRuns, testContract, observed, contractValue,
                   otherVars>>

\* the deferred o.done.Store(1)
OnceStoreDone(p) ==
    /\ pc[p] \in {"storeDone", "panic_storeDone"}
    /\ onceDone' = TRUE
    /\ pc' = [pc EXCEPT ![p] = IF pc[p] = "storeDone" THEN "unlock" ELSE "panic_unlock"]
    /\ UNCHANGED <<callee, initStep, onceM, initRuns, testContract, singletonVars, observed,
                   contractValue, otherVars>>

\* the deferred o.m.Unlock(); a panic of initTest goes on to the caller
OnceUnlock(p) ==
    /\ pc[p] \in {"unlock", "panic_unlock"}
    /\ onceM' = 0
    /\ pc' = [pc EXCEPT ![p] = IF pc[p] = "unlock" THEN "return" ELSE "idle"]
    /\ initStep' = [initStep EXCEPT ![p] = 0]
    /\ callee' = [callee EXCEPT ![p] = IF pc[p] = "panic_unlock" THEN "" ELSE @]
    /\ UNCHANGED <<onceDone, initRuns, testContract, singletonVars, observed,
                   contractValue, otherVars>>

\* return testContractChecker / testContractType / testContractInitializerTypes
Return(p) ==
    /\ pc[p] = "return"
    /\ observed' = [callee |-> callee[p], checker |-> testContractChecker,
                    type |-> testContractType,
                    initializerTypes |-> testContractInitializerTypes]
    /\ pc' = [pc EXCEPT ![p] = IF callee[p] \in Accessors THEN "idle" ELSE "construct"]
    /\ callee' = [callee EXCEPT ![p] = IF callee[p] \in Accessors THEN "" ELSE @]
    /\ UNCHANGED <<initStep, onceDone, onceM, initRuns, testContract, singletonVars,
                   contractValue, otherVars>>

\* NewTestContract: inter.InvokeFunctionValue(constructor, ...); on an error
\* NewTestContract returns it, and the contract value handler panics with it
InvokeConstructor(p) ==
    /\ pc[p] = "construct"
    /\ \E ok \in BOOLEAN :
           IF ok
           THEN /\ pc' = [pc EXCEPT ![p] = "inject"]
                /\ UNCHANGED <<callee, contractValue>>
           ELSE /\ pc' = [pc EXCEPT ![p] = "idle"]
                /\ callee' = [callee EXCEPT ![p] = ""]
                /\ contractValue' = [NoContractValue EXCEPT !.status = "error"]
    /\ UNCHANGED <<initStep, onceDone, onceM, initRuns, testContract, singletonVars,
                   observed, otherVars>>

\* the function values NewTestContract reads: the package variables, and the
\* values that testNewEmulatorBlockchainFunction and testReadFileFunction make,
\* the first with the function type that initTest assigns
InjectedFunctions(globals) ==
    [n \in TestFunctionNames |->
        IF n = "newEmulatorBlockchain"
        THEN globals.newEmulatorBlockchainFunctionType
        ELSE n \in globals.functions \cup {"readFile"}]

\* a plausible slip: the functions are also set as members of the contract type
InjectIntoContractType(p) ==
    /\ pc[p] = "inject"
    /\ contractValue' = [status |-> "ok", Functions |-> InjectedFunctions(testGlobals)]
    /\ testContractType' = [testContractType EXCEPT !.Members = @ \cup {"injected"}]
    /\ pc' = [pc EXCEPT ![p] = "idle"]
    /\ callee' = [callee EXCEPT ![p] = ""]
    /\ UNCHANGED <<initStep, onceDone, onceM, initRuns, testContract,
                   testContractChecker, testContractInitializerTypes, testGlobals, observed,
                   otherVars>>

\* NewTestContract: compositeValue.Functions[...] = ...
InjectFunctions(p) ==
    /\ pc[p] = "inject"
    /\ contractValue' = [status |-> "ok", Functions |-> InjectedFunctions(testGlobals)]
    /\ pc' = [pc EXCEPT ![p] = "idle"]
    /\ callee' = [callee EXCEPT ![p] = ""]
    /\ UNCHANGED <<initStep, onceDone, onceM, initRuns, testContract, singletonVars,
                   observed, otherVars>>

\* TestCheckerContractValueHandler: builds a StandardLibraryValue from its arguments
CheckerContractValueHandler(p) ==
    /\ pc[p] = "handler"
    /\ pc' = [pc EXCEPT ![p] = "idle"]
    /\ callee' = [callee EXCEPT ![p] = ""]
    /\ UNCHANGED <<initStep, onceDone, onceM, initRuns, testContract, singletonVars,
                   observed, contractValue, otherVars>>

\* a function of the contract value runs: assert, fail, expect, readFile,
\* newEmulatorBlockchain (which reads testEmulatorBackend) or a matcher constructor
InvokeHostFunction(p) ==
    /\ pc[p] = "invoke"
    /\ pc' = [pc EXCEPT ![p] = "idle"]
    /\ callee' = [callee EXCEPT ![p] = ""]
    /\ UNCHANGED <<initStep, onceDone, onceM, initRuns, testContract, singletonVars,
                   observed, contractValue, otherVars>>


----------------------------------------------------------------------------
(* The semantic checker: conformance of composites to interfaces         *)
(* (runtime/sema), as the checker tests of the repository exercise it    *)

MaxConformances == 2

\* subtyping, for the types of the test programs: reflexive, and a composite
\* is a subtype of the interface set it conforms to (resource R: RI)
IsSubType(subType, superType) ==
    \/ subType = superType
    \/ subType = "@R" /\ superType = "@{RI}"

\* ast.Position
Position(offset, line, column) == [Offset |-> offset, Line |-> line, Column |-> column]

NoPosition == Position(0, 0, 0)

\* ast.NewRangeFromPositioned, for an identifier: from its first to its last character
IdentifierRange(startPos, length) ==
    [StartPos |-> startPos,
     EndPos |-> Position(startPos.Offset + length - 1, startPos.Line,
                         startPos.Column + length - 1)]

Parameter(label, identifier, type) ==
    [Label |-> label, Identifier |-> identifier, Type |-> type]

\* a function or field member of an interface or of a composite
FunctionMember(name, parameters, returnType, hasImplementation, identifierPos) ==
    [kind |-> "function", name |-> name, parameters |-> parameters, type |-> returnType,
     hasImplementation |-> hasImplementation, pos |-> identifierPos]

FieldMember(name, type, identifierPos) ==
    [kind |-> "field", name |-> name, parameters |-> <<>>, type |-> type,
     hasImplementation |-> FALSE, pos |-> identifierPos]

\* an initializer; a composite that declares none has the one without parameters
Initializer(declared, parameters, identifierPos) ==
    [declared |-> declared, parameters |-> parameters, pos |-> identifierPos]

NoInitializer == Initializer(FALSE, <<>>, NoPosition)

\* a nested declaration: a composite (struct, resource) or an event
NestedDeclaration(name, kind, members) ==
    [name |-> name, kind |-> kind, members |-> members, initializer |-> NoInitializer,
     nested |-> <<>>]

InterfaceDeclaration(name, members, initializer, nested) ==
    [name |-> name, kind |-> "interface", members |-> members, initializer |-> initializer,
     nested |-> nested]

CompositeDeclaration(name, members, initializer, nested) ==
    [name |-> name, kind |-> "composite", members |-> members, initializer |-> initializer,
     nested |-> nested]

HasMember(declaration, name) ==
    \E i \in DOMAIN declaration.members : declaration.members[i].name = name

GetDeclaredMember(declaration, name) ==
    declaration.members[CHOOSE i \in DOMAIN declaration.members :
                            declaration.members[i].name = name]

\* a plausible slip: parameter names are compared too
ParametersMatchWithNames(compositeParameters, interfaceParameters) ==
    /\ Len(compositeParameters) = Len(interfaceParameters)
    /\ \A i \in DOMAIN interfaceParameters :
           compositeParameters[i] = interfaceParameters[i]

\* identical argument labels and equal parameter types; parameter names may differ
ParametersMatch(compositeParameters, interfaceParameters) ==
    /\ Len(compositeParameters) = Len(interfaceParameters)
    /\ \A i \in DOMAIN interfaceParameters :
           /\ compositeParameters[i].Label = interfaceParameters[i].Label
           /\ compositeParameters[i].Type = interfaceParameters[i].Type

\* a plausible slip: the whole function type is compared by subtyping, so a
\* parameter of a supertype is accepted
MemberMatchesByFunctionSubtype(compositeMember, interfaceMember) ==
    /\ compositeMember.kind = interfaceMember.kind
    /\ Len(compositeMember.parameters) = Len(interfaceMember.parameters)
    /\ \A i \in DOMAIN interfaceMember.parameters :
           /\ compositeMember.parameters[i].Label = interfaceMember.parameters[i].Label
           /\ IsSubType(interfaceMember.parameters[i].Type, compositeMember.parameters[i].Type)
    /\ IsSubType(compositeMember.type, interfaceMember.type)

\* same kind, matching parameters, and a (return) type that is a subtype
MemberMatches(compositeMember, interfaceMember) ==
    /\ compositeMember.kind = interfaceMember.kind
    /\ ParametersMatch(compositeMember.parameters, interfaceMember.parameters)
    /\ IsSubType(compositeMember.type, interfaceMember.type)

\* a plausible slip: events create type requirements like other nested declarations
TypeRequirementsWithEvents(interface) == interface.nested

\* the type requirements of an interface: its nested declarations, events exempt
TypeRequirements(interface) ==
    SelectSeq(interface.nested, LAMBDA d : d.kind # "event")

HasNestedDeclaration(composite, requirement) ==
    \E i \in DOMAIN composite.nested :
        /\ composite.nested[i].name = requirement.name
        /\ composite.nested[i].kind = requirement.kind

GetNestedDeclaration(composite, requirement) ==
    composite.nested[CHOOSE i \in DOMAIN composite.nested :
                         /\ composite.nested[i].name = requirement.name
                         /\ composite.nested[i].kind = requirement.kind]

\* the members of the interface that the composite lacks, in declaration order;
\* a member that the interface implements is inherited
MissingMembers(composite, interface) ==
    SelectSeq(interface.members,
              LAMBDA m : ~HasMember(composite, m.name) /\ ~m.hasImplementation)

\* the members of the interface that the composite declares differently
MemberMismatches(composite, interface) ==
    SelectSeq(interface.members,
              LAMBDA m : /\ HasMember(composite, m.name)
                         /\ ~MemberMatches(GetDeclaredMember(composite, m.name), m))

MissingNestedCompositeTypes(composite, interface) ==
    SelectSeq(TypeRequirements(interface), LAMBDA d : ~HasNestedDeclaration(composite, d))

InitializerMismatch(composite, interface) ==
    /\ interface.initializer.declared
    /\ ~ParametersMatch(composite.initializer.parameters, interface.initializer.parameters)

\* sema.ConformanceError: the composite, the interface (qualified by the
\* interface that requires it, for a type requirement) and what does not conform
ConformanceError(composite, interface, qualifiedName) ==
    [kind |-> "Conformance",
     CompositeType |-> composite.name,
     InterfaceType |-> qualifiedName,
     MissingMembers |-> [i \in DOMAIN MissingMembers(composite, interface) |->
                            MissingMembers(composite, interface)[i].name],
     MemberMismatches |->
         [i \in DOMAIN MemberMismatches(composite, interface) |->
             LET name == MemberMismatches(composite, interface)[i].name
             IN  [name |-> name, pos |-> GetDeclaredMember(composite, name).pos]],
     MissingNestedCompositeTypes |->
         [i \in DOMAIN MissingNestedCompositeTypes(composite, interface) |->
             MissingNestedCompositeTypes(composite, interface)[i].name],
     InitializerMismatch |->
         IF InitializerMismatch(composite, interface)
         THEN [set |-> TRUE, CompositeInitializer |-> composite.initializer.pos,
               InterfaceInitializer |-> interface.initializer.pos]
         ELSE [set |-> FALSE, CompositeInitializer |-> NoPosition,
               InterfaceInitializer |-> NoPosition]]

\* one conformance of a composite: an error when anything is missing or differs
CheckCompositeConformance(composite, interface, qualifiedName) ==
    IF \/ MissingMembers(composite, interface) # <<>>
       \/ MemberMismatches(composite, interface) # <<>>
       \/ MissingNestedCompositeTypes(composite, interface) # <<>>
       \/ InitializerMismatch(composite, interface)
    THEN <<ConformanceError(composite, interface, qualifiedName)>>
    ELSE <<>>

\* the nested declarations of the composite that a type requirement of the
\* interface names conform to that requirement, like a composite to an interface
RECURSIVE CheckTypeRequirementsFrom(_, _, _)
CheckTypeRequirementsFrom(composite, interface, i) ==
    IF i > Len(TypeRequirements(interface))
    THEN <<>>
    ELSE LET requirement == TypeRequirements(interface)[i]
             here == IF HasNestedDeclaration(composite, requirement)
                     THEN CheckCompositeConformance(
                              GetNestedDeclaration(composite, requirement), requirement,
                              interface.name \o "." \o requirement.name)
                     ELSE <<>>
         IN  here \o CheckTypeRequirementsFrom(composite, interface, i + 1)

\* a plausible slip: the type requirements of the interface are not checked
CheckMembersOnly(composite, interface) ==
    CheckCompositeConformance(composite, interface, interface.name)

\* the check of one conformance C: I of a composite declaration
CheckConformance(composite, interface) ==
    CheckCompositeConformance(composite, interface, interface.name)
        \o CheckTypeRequirementsFrom(composite, interface, 1)

\* a plausible slip: the note of an initializer mismatch points at the
\* initializer of the interface
InterfaceInitializerNote(error) ==
    IF error.InitializerMismatch.set
    THEN <<[kind |-> "MemberMismatchNote",
            Range |-> IdentifierRange(error.InitializerMismatch.InterfaceInitializer, 4)]>>
    ELSE <<>>

\* the note of an initializer mismatch: the range of the identifier `init` of
\* the composite's initializer
InitializerMismatchNote(error) ==
    IF error.InitializerMismatch.set
    THEN <<[kind |-> "MemberMismatchNote",
            Range |-> IdentifierRange(error.InitializerMismatch.CompositeInitializer, 4)]>>
    ELSE <<>>

\* ConformanceError.ErrorNotes: a note for each mismatched member of the
\* composite, then the note of the initializer mismatch
ErrorNotes(error) ==
    [i \in DOMAIN error.MemberMismatches |->
        [kind |-> "MemberMismatchNote",
         Range |-> IdentifierRange(error.MemberMismatches[i].pos,
                                   Len(error.MemberMismatches[i].name))]]
        \o InitializerMismatchNote(error)

\* a piece of a message: plain text, or a name between backquotes
Plain(text) == [text |-> text, quoted |-> FALSE]

Quoted(text) == [text |-> text, quoted |-> TRUE]

\* the names of a list between backquotes, separated by ", "
RECURSIVE QuotedList(_)
QuotedList(names) ==
    IF names = <<>>
    THEN <<>>
    ELSE <<Quoted(names[1])>>
             \o (IF Len(names) > 1 THEN <<Plain(", ")>> ELSE <<>>)
             \o QuotedList(Tail(names))

\* a plausible slip: the missing types are named without the interface
UnqualifiedTypeNames(error) == error.MissingNestedCompositeTypes

\* the missing types, each qualified by the interface that requires it
QualifiedTypeNames(error) ==
    [i \in DOMAIN error.MissingNestedCompositeTypes |->
        error.InterfaceType \o "." \o error.MissingNestedCompositeTypes[i]]

\* ConformanceError.SecondaryError
SecondaryError(error) ==
    LET members ==
            IF error.MissingMembers = <<>>
            THEN <<>>
            ELSE <<Quoted(error.CompositeType), Plain(" is missing definitions for members: ")>>
                     \o QuotedList(error.MissingMembers)
        types ==
            IF error.MissingNestedCompositeTypes = <<>>
            THEN <<>>
            ELSE (IF members = <<>>
                  THEN <<Quoted(error.CompositeType),
                         Plain(" is missing definitions for types: ")>>
                  ELSE <<Plain(". "), Quoted(error.CompositeType),
                         Plain(" is also missing definitions for types: ")>>)
                     \o QuotedList(QualifiedTypeNames(error))
    IN  members \o types

\* the declarations of the checker tests, and variants of them ---------------

RI == "@{RI}"

R == "@R"

\* where the members of the sample composites are declared
CompositeFooPos == Position(120, 7, 14)

CompositeBarPos == Position(150, 8, 14)

CompositeFieldPos == Position(141, 8, 12)

\* TestCheckInitializerConformanceErrorMessages, "initializer notes": `init` of R
CompositeInitializerPos == Position(158, 9, 8)

\* TestCheckInitializerConformanceErrorMessages, "initializer notes": `init` of I
InterfaceInitializerPos == Position(74, 4, 10)

InterfaceFoo(type, hasImplementation) ==
    FunctionMember("foo", <<Parameter("x", "p", type)>>, type, hasImplementation, NoPosition)

InterfaceBar == FunctionMember("bar", <<>>, "Int", FALSE, NoPosition)

InterfaceInitializer ==
    Initializer(TRUE, <<Parameter("x", "x", "Int")>>, InterfaceInitializerPos)

\* the interfaces a program may declare; declarations of one name are alternatives
InterfaceDeclarations ==
    {InterfaceDeclaration("I", <<InterfaceFoo(RI, FALSE)>>, NoInitializer, <<>>),
     InterfaceDeclaration("I", <<InterfaceFoo(R, FALSE), InterfaceBar>>, NoInitializer, <<>>),
     InterfaceDeclaration("I", <<InterfaceBar, InterfaceFoo(RI, TRUE)>>, NoInitializer, <<>>),
     InterfaceDeclaration("I", <<InterfaceFoo(RI, FALSE)>>, InterfaceInitializer, <<>>),
     InterfaceDeclaration("J", <<FieldMember("x", "Int", NoPosition)>>,
                          InterfaceInitializer, <<>>),
     InterfaceDeclaration("CI", <<>>, NoInitializer,
                          <<NestedDeclaration("S", "struct", <<>>),
                            NestedDeclaration("E", "event",
                                              <<FieldMember("a", "Int", NoPosition)>>)>>),
     InterfaceDeclaration("CI", <<InterfaceBar>>, NoInitializer,
                          <<NestedDeclaration("S", "struct", <<>>),
                            NestedDeclaration("T", "resource", <<>>)>>),
     InterfaceDeclaration("IA", <<>>, NoInitializer,
                          <<NestedDeclaration("X", "struct",
                                              <<FieldMember("a", "Int", NoPosition)>>)>>),
     InterfaceDeclaration("IB", <<>>, NoInitializer,
                          <<NestedDeclaration("X", "struct",
                                              <<FieldMember("b", "Int", NoPosition)>>)>>)}

\* the function foo a composite may declare; its parameter is named differently
CompositeFoos ==
    {<<FunctionMember("foo", <<Parameter("x", "q", pt)>>, rt, TRUE, CompositeFooPos)>> :
         pt \in {R, RI}, rt \in {R, RI}}
    \cup {<<FunctionMember("foo", <<Parameter("y", "p", RI)>>, RI, TRUE, CompositeFooPos)>>,
          <<>>}

CompositeBars == {<<FunctionMember("bar", <<>>, "Int", TRUE, CompositeBarPos)>>, <<>>}

CompositeInitializers ==
    {Initializer(TRUE, <<>>, CompositeInitializerPos),
     Initializer(TRUE, <<Parameter("x", "x", "Int")>>, CompositeInitializerPos)}

StructS == NestedDeclaration("S", "struct", <<>>)

EventE == NestedDeclaration("E", "event", <<FieldMember("b", "String", NoPosition)>>)

StructX(fields) ==
    NestedDeclaration("X", "struct",
                      [i \in DOMAIN fields |-> FieldMember(fields[i], "Int", NoPosition)])

CompositeNested ==
    {<<>>, <<EventE>>, <<StructS>>, <<StructS, EventE>>,
     <<StructS, NestedDeclaration("T", "resource", <<>>)>>,
     <<StructX(<<"a">>)>>, <<StructX(<<"a", "b">>)>>}

CompositeDeclarations ==
    {CompositeDeclaration("C", foo \o bar \o <<FieldMember("x", "Int", CompositeFieldPos)>>,
                          init, nested) :
         foo \in CompositeFoos, bar \in CompositeBars, init \in CompositeInitializers,
         nested \in CompositeNested}

\* the conformances of the composite: interfaces of different names, in order
RECURSIVE ConformanceLists(_)
ConformanceLists(n) ==
    IF n = 0
    THEN {<<>>}
    ELSE LET shorter == ConformanceLists(n - 1)
         IN  shorter \cup
             {Append(l, i) : l \in {s \in shorter : Len(s) = n - 1},
                             i \in InterfaceDeclarations}

DistinctNames(interfaces) ==
    \A i, j \in DOMAIN interfaces : i # j => interfaces[i].name # interfaces[j].name

Programs ==
    {[interfaces |-> interfaces, composite |-> composite] :
         interfaces \in {l \in ConformanceLists(MaxConformances) : l # <<>> /\ DistinctNames(l)},
         composite \in CompositeDeclarations}

NoProgram == [interfaces |-> <<>>, composite |-> CompositeDeclaration("", <<>>, NoInitializer, <<>>)]

NoChecker == [program |-> NoProgram, position |-> 0, errors |-> <<>>, status |-> "idle"]

otherThanChecker ==
    <<storage, migrationVars, member, testVars, hostCall, encoder, transfer, comment, applied, matcherTest>>

\* the checker takes up the next conformance of the composite
CheckNextConformance ==
    /\ semaChecker.status = "checking"
    /\ semaChecker.position <= Len(semaChecker.program.interfaces)
    /\ semaChecker' = [semaChecker EXCEPT
                      !.errors = @ \o CheckConformance(semaChecker.program.composite,
                                                       semaChecker.program.interfaces[semaChecker.position]),
                      !.position = @ + 1]
    /\ UNCHANGED otherThanChecker

\* Check ends: with an elaboration, or with the errors that accumulated
FinishCheck ==
    /\ semaChecker.status = "checking"
    /\ semaChecker.position > Len(semaChecker.program.interfaces)
    /\ semaChecker' = [semaChecker EXCEPT !.status = IF semaChecker.errors = <<>> THEN "elaborated"
                                              ELSE "errors"]
    /\ UNCHANGED otherThanChecker


----------------------------------------------------------------------------
(* The functions of the Test contract: assert, fail, expect and matchers *)

\* the values a test passes to the functions of the Test contract
TestValue(type, b, n, str) ==
    [type |-> type, b |-> b, n |-> n, str |-> str, elements |-> <<>>]

TestBoolValue(b) == TestValue("Bool", b, 0, "")

TestStringValue(str) == TestValue("String", FALSE, 0, str)

TestIntValue(n) == TestValue("Int", FALSE, n, "")

\* an array with the given elements, and a dictionary with the given keys
TestArrayOf(elements) ==
    [type |-> "Array", b |-> FALSE, n |-> 0, str |-> "", elements |-> elements]

TestDictionaryOf(keys) ==
    [type |-> "Dictionary", b |-> FALSE, n |-> 0, str |-> "", elements |-> keys]

\* the array of the first integers
TestArrayValue(count) == TestArrayOf([i \in 1..count |-> TestIntValue(i)])

\* ArrayValue.Count, DictionaryValue.Count
Count(value) == Len(value.elements)

\* ArrayValue.Contains, DictionaryValue.ContainsKey
Contains(value, element) == \E i \in DOMAIN value.elements : value.elements[i] = element

Void == TestValue("Void", FALSE, 0, "")

Messages == {"", "failed"}

ExpectedValues == {TestIntValue(1), TestIntValue(2), TestArrayValue(0), TestArrayValue(1),
                   TestStringValue("failed")}

\* what an invocation of a host function ends with: a value, or a panic
Returned(value) == [kind |-> "return", value |-> value, Message |-> "", LocationRange |-> FALSE]

\* panic(AssertionError{Message: ..., LocationRange: ...})
AssertionError(message, locationRange) ==
    [kind |-> "AssertionError", value |-> Void, Message |-> message,
     LocationRange |-> locationRange]

\* a panic with another error
Panicked(error) == [kind |-> error, value |-> Void, Message |-> "", LocationRange |-> FALSE]

\* a plausible slip: the condition is not negated
TestAssertInverted(arguments) ==
    LET condition == arguments[1].b
        message == IF Len(arguments) > 1 THEN arguments[2].str ELSE ""
    IN  IF condition THEN AssertionError(message, TRUE) ELSE Returned(Void)

\* testAssertFunction
TestAssertFunction(arguments) ==
    LET condition == arguments[1].b
        message == IF Len(arguments) > 1 THEN arguments[2].str ELSE ""
    IN  IF ~condition THEN AssertionError(message, TRUE) ELSE Returned(Void)

\* testFailFunction
TestFailFunction(arguments) ==
    LET message == IF Len(arguments) > 0 THEN arguments[1].str ELSE ""
    IN  AssertionError(message, TRUE)

\* a matcher: the function that made it, the parameter type of its test
\* function, and the value or count it compares with
Matcher(name, parameterType, other) ==
    [name |-> name, parameterType |-> parameterType, other |-> other]

\* equal(other), beEmpty(), haveElementCount(n), and newMatcher with a function
\* of the test program: fun (v: Int): Bool { return v == 1 }
Matchers ==
    {Matcher("equal", "AnyStruct", v) : v \in ExpectedValues}
    \cup {Matcher("beEmpty", "AnyStruct", Void),
          Matcher("haveElementCount", "AnyStruct", TestIntValue(1)),
          Matcher("newMatcher", "Int", Void)}

IsSubTypeOfSemaType(staticType, semaType) ==
    semaType = "AnyStruct" \/ staticType = semaType

\* a plausible slip: the matchers of collections know arrays only
TestFuncOfArrays(matcher, value) ==
    CASE matcher.name = "equal" -> Returned(TestBoolValue(value = matcher.other))
      [] matcher.name = "beEmpty" ->
             IF value.type = "Array"
             THEN Returned(TestBoolValue(Count(value) = 0))
             ELSE Panicked("DefaultUserError")
      [] matcher.name = "haveElementCount" ->
             IF value.type = "Array"
             THEN Returned(TestBoolValue(Count(value) = matcher.other.n))
             ELSE Panicked("DefaultUserError")
      [] matcher.name = "contain" ->
             IF value.type = "Array"
             THEN Returned(TestBoolValue(Contains(value, matcher.other)))
             ELSE Panicked("DefaultUserError")
      [] matcher.name = "newMatcher" -> Returned(TestBoolValue(value.n = 1))

\* the test function a matcher was made with
TestFunc(matcher, value) ==
    CASE matcher.name = "equal" -> Returned(TestBoolValue(value = matcher.other))
      [] matcher.name = "beEmpty" ->
             IF value.type \in {"Array", "Dictionary"}
             THEN Returned(TestBoolValue(Count(value) = 0))
             ELSE Panicked("DefaultUserError")
      [] matcher.name = "haveElementCount" ->
             IF value.type \in {"Array", "Dictionary"}
             THEN Returned(TestBoolValue(Count(value) = matcher.other.n))
             ELSE Panicked("DefaultUserError")
      [] matcher.name = "contain" ->
             IF value.type \in {"Array", "Dictionary"}
             THEN Returned(TestBoolValue(Contains(value, matcher.other)))
             ELSE Panicked("DefaultUserError")
      [] matcher.name = "newMatcher" -> Returned(TestBoolValue(value.n = 1))

\* newMatcherWithGenericTestFunction: the test function of a matcher checks
\* the type of its argument, then calls the function the matcher was made with
MatcherTestFunction(matcher, value) ==
    IF ~IsSubTypeOfSemaType(value.type, matcher.parameterType)
    THEN Panicked("TypeMismatchError")
    ELSE TestFunc(matcher, value)

\* the matchers of collections, and the values they are tested with
CollectionMatchers ==
    {Matcher("beEmpty", "AnyStruct", Void)}
        \cup {Matcher("haveElementCount", "AnyStruct", TestIntValue(n)) : n \in 0..2}
        \cup {Matcher("contain", "AnyStruct", e) :
                  e \in {TestIntValue(1), TestIntValue(2), TestStringValue("failed")}}

TestedValues ==
    ExpectedValues
        \cup {TestArrayValue(2), TestArrayOf(<<TestIntValue(2)>>),
              TestArrayOf(<<TestStringValue("failed"), TestIntValue(1)>>),
              TestDictionaryOf(<<>>), TestDictionaryOf(<<TestIntValue(1)>>),
              TestDictionaryOf(<<TestStringValue("failed"), TestIntValue(2)>>),
              TestBoolValue(TRUE)}

\* a plausible slip: the types of the arguments are not looked at
ArgumentMismatchIgnored(argument, parameterType) == FALSE

\* if !inter.IsSubTypeOfSemaType(argumentStaticType, paramType)
ArgumentMismatch(argument, parameterType) ==
    ~IsSubTypeOfSemaType(argument.type, parameterType)

\* an invocation of the test function of a matcher: the statement it is at,
\* the arguments checked so far, what it has done and how it ended
MatcherTestState(matcher, arguments, at) ==
    [matcher |-> matcher, arguments |-> arguments, at |-> at, checked |-> 0,
     trace |-> <<>>, outcome |-> Returned(Void)]

NoMatcherTest == MatcherTestState(Matcher("", "", Void), <<>>, "idle")

otherThanMatcherTest ==
    <<storage, migrationVars, member, testVars, semaChecker, hostCall, encoder, transfer,
      comment, applied>>

\* one turn of the loop over the arguments
CheckArgumentType ==
    /\ matcherTest.at = "check"
    /\ LET i == matcherTest.checked + 1
       IN  IF ArgumentMismatch(matcherTest.arguments[i], matcherTest.matcher.parameterType)
           THEN matcherTest' = [matcherTest EXCEPT !.at = "panicked",
                                                   !.trace = Append(@, "check"),
                                                   !.outcome = Panicked("TypeMismatchError")]
           ELSE matcherTest' = [matcherTest EXCEPT
                                    !.at = IF i = Len(matcherTest.arguments)
                                           THEN "invoke" ELSE "check",
                                    !.trace = Append(@, "check"),
                                    !.checked = i]
    /\ UNCHANGED otherThanMatcherTest

\* inter.InvokeFunction(testFunc, invocation); an error is raised again
InvokeTestFunc ==
    /\ matcherTest.at = "invoke"
    /\ LET outcome == TestFunc(matcherTest.matcher, matcherTest.arguments[1])
       IN  matcherTest' = [matcherTest EXCEPT
                               !.at = IF outcome.kind = "return" THEN "returned"
                                      ELSE "panicked",
                               !.trace = Append(@, "invoke"),
                               !.outcome = outcome]
    /\ UNCHANGED otherThanMatcherTest

\* a plausible slip: the result of the matcher is not negated
TestExpectInverted(value, matcher) ==
    LET testResult == MatcherTestFunction(matcher, value)
    IN  IF testResult.kind # "return"
        THEN testResult
        ELSE IF testResult.value.b THEN AssertionError("", FALSE) ELSE Returned(Void)

\* testExpectFunction, with invokeMatcherTest: an error of the test function is
\* raised again
TestExpectFunction(value, matcher) ==
    LET testResult == MatcherTestFunction(matcher, value)
    IN  IF testResult.kind # "return"
        THEN testResult
        ELSE IF ~testResult.value.b THEN AssertionError("", FALSE) ELSE Returned(Void)

NoMatcher == Matcher("", "", Void)

HostCall(function, arguments, matcher, outcome) ==
    [function |-> function, arguments |-> arguments, matcher |-> matcher,
     outcome |-> outcome]

\* a test goes on as long as no function of the Test contract has failed
TestRunning ==
    /\ Len(hostCall) < MaxInvocations
    /\ hostCall # <<>> => hostCall[Len(hostCall)].outcome.kind = "return"

otherThanHostCall ==
    <<storage, migrationVars, member, testVars, semaChecker, encoder, transfer, comment, applied, matcherTest>>

\* Test.assert(condition) or Test.assert(condition, message: message)
InvokeAssert ==
    /\ TestRunning
    /\ \E condition \in BOOLEAN :
           \E arguments \in {<<TestBoolValue(condition)>>}
                            \cup {<<TestBoolValue(condition), TestStringValue(m)>> :
                                      m \in Messages} :
               hostCall' = Append(hostCall, HostCall("assert", arguments, NoMatcher,
                                                     TestAssertFunction(arguments)))
    /\ UNCHANGED otherThanHostCall

\* Test.fail() or Test.fail(message: message)
InvokeFail ==
    /\ TestRunning
    /\ \E arguments \in {<<>>} \cup {<<TestStringValue(m)>> : m \in Messages} :
           hostCall' = Append(hostCall, HostCall("fail", arguments, NoMatcher,
                                                 TestFailFunction(arguments)))
    /\ UNCHANGED otherThanHostCall

\* Test.expect(value, matcher)
InvokeExpect ==
    /\ TestRunning
    /\ \E value \in ExpectedValues, matcher \in Matchers :
           hostCall' = Append(hostCall, HostCall("expect", <<value>>, matcher,
                                                 TestExpectFunction(value, matcher)))
    /\ UNCHANGED otherThanHostCall

----------------------------------------------------------------------------
(* The CBOR encoding of a path capability.  The encoder's output is a      *)
(* sequence of items: one per raw byte, and one per value that a nested    *)
(* Encode writes                                                           *)

EncodedItem(item, address, path, type) ==
    [item |-> item, address |-> address, Path |-> path, type |-> type]

RawByte(b) == EncodedItem(b, 0, NoPath, NilType)

\* what AddressValue.Encode, PathValue.Encode and StaticType.Encode write
EncodedAddress(a) == EncodedItem("address", a, NoPath, NilType)

EncodedPath(p) == EncodedItem("path", 0, p, NilType)

EncodedStaticType(t) == EncodedItem("type", 0, NoPath, t)

\* e.CBOR.EncodeNil()
EncodedNil == RawByte("0xf6")

encodedPathCapabilityValueLength == 3

\* tag number, and the head of an array of three items
EncodedTagAndArrayHead ==
    <<RawByte("0xd8"), RawByte("CBORTagPathCapabilityValue"), RawByte("0x83")>>

\* a plausible slip: the borrow type is never written
BorrowTypeAsNil(v) == <<EncodedNil>>

\* the last element: the borrow type, or nil when there is none
EncodedBorrowType(v) ==
    IF v.BorrowType = NilType
    THEN <<EncodedNil>>
    ELSE <<EncodedStaticType(v.BorrowType)>>

\* what each step of Encode asks the encoder to write
WrittenBy(step, v) ==
    CASE step = "head" -> EncodedTagAndArrayHead
      [] step = "address" -> <<EncodedAddress(v.address)>>
      [] step = "path" -> <<EncodedPath(v.Path)>>
      [] step = "borrowType" -> EncodedBorrowType(v)

\* a plausible slip: the path is written before the address
PathBeforeAddress(step) ==
    CASE step = "head" -> "path"
      [] step = "path" -> "address"
      [] step = "address" -> "borrowType"
      [] step = "borrowType" -> "return"

\* the order of the statements of Encode
EncodeStepAfter(step) ==
    CASE step = "head" -> "address"
      [] step = "address" -> "path"
      [] step = "path" -> "borrowType"
      [] step = "borrowType" -> "return"

EncodeSteps == {"head", "address", "path", "borrowType"}

\* the error that the encoder returns from the write of a step
EncodeError(step) == "error at " \o step

RECURSIVE EncodeFrom(_, _)
EncodeFrom(step, v) ==
    IF step = "return"
    THEN <<>>
    ELSE WrittenBy(step, v) \o EncodeFrom(EncodeStepAfter(step), v)

\* the whole output of Encode when no write fails
Encode(v) == EncodeFrom("head", v)

\* PathCapabilityValue.Equal
\* StaticType.Equal: static types are equal when they match structurally
StaticTypeEqual(staticType, otherType) == staticType = otherType

\* a plausible slip: the borrow types are compared only when the receiver has one
EqualWithOptionalBorrowType(v, other) ==
    /\ IsPathCapabilityValue(other)
    /\ v.BorrowType # NilType => StaticTypeEqual(v.BorrowType, other.BorrowType)
    /\ other.address = v.address
    /\ other.Path = v.Path

Equal(v, other) ==
    /\ IsPathCapabilityValue(other)
    /\ IF v.BorrowType = NilType
       THEN other.BorrowType = NilType
       ELSE StaticTypeEqual(v.BorrowType, other.BorrowType)
    /\ other.address = v.address
    /\ other.Path = v.Path

\* the decoder of a stored path capability: it verifies the tag and the
\* length of the array, then reads address, path and borrow type
DecodePathCapability(items) ==
    IF /\ Len(items) = Len(EncodedTagAndArrayHead) + encodedPathCapabilityValueLength
       /\ SubSeq(items, 1, Len(EncodedTagAndArrayHead)) = EncodedTagAndArrayHead
       /\ items[4].item = "address"
       /\ items[5].item = "path"
       /\ items[6].item \in {"type", EncodedNil.item}
    THEN PathCapabilityValue(IF items[6] = EncodedNil THEN NilType ELSE items[6].type,
                             items[4].address, items[5].Path)
    ELSE NoValue

\* the state of one call of Encode: the value, the step whose write fails
\* (if any), the statement reached, the output so far, the returned error
EncoderState(v, failing, statement, written, err, decoded) ==
    [v |-> v, failing |-> failing, pc |-> statement, written |-> written, err |-> err,
     decoded |-> decoded]

NoEncoder == EncoderState(NoValue, "none", "idle", <<>>, "", NoValue)

otherThanEncoder ==
    <<storage, migrationVars, member, testVars, semaChecker, hostCall, transfer, comment, applied, matcherTest>>

\* one statement of Encode: the write, and the return of its error
EncodeAt(step) ==
    /\ encoder.pc = step
    /\ IF encoder.failing = step
       THEN encoder' = [encoder EXCEPT !.pc = "return", !.err = EncodeError(step)]
       ELSE encoder' = [encoder EXCEPT !.pc = EncodeStepAfter(step),
                                       !.written = @ \o WrittenBy(step, encoder.v)]
    /\ UNCHANGED otherThanEncoder

EncodeTagAndArrayHead == EncodeAt("head")

EncodeAddress == EncodeAt("address")

EncodePath == EncodeAt("path")

EncodeBorrowType == EncodeAt("borrowType")

\* the output of a call that returned no error is read back
DecodeStored ==
    /\ encoder.pc = "return"
    /\ encoder.err = ""
    /\ encoder' = [encoder EXCEPT !.pc = "decoded",
                                  !.decoded = DecodePathCapability(encoder.written)]
    /\ UNCHANGED otherThanEncoder

----------------------------------------------------------------------------
(* The transfer of a path capability.  The interpreter's storage holds     *)
(* slabs; a value is either stored inline in its parent or in a slab of    *)
(* its own that the parent refers to by id                                 *)

MaxTransfers == 2

SlabIDs == {1, 2}

\* the atree.Storable of a value: the value itself, or a reference to its slab
InlineStorable(v) == [kind |-> "inline", id |-> 0, value |-> v]

SlabIDStorable(id) == [kind |-> "slab", id |-> id, value |-> NoValue]

\* the capability controllers of the accounts
CapabilityControllers == {[id |-> 7, address |-> 1, borrowType |-> RefFoo]}

\* v.ChildStorables(): the address and the path
ChildStorables(v) == <<[child |-> "address", of |-> v], [child |-> "path", of |-> v]>>

\* interpreter.RemoveReferencedSlab(storable): the slab that the storable
\* refers to is removed from the storage; an inline storable has none
RemoveReferencedSlab(state, storable) ==
    IF storable.kind = "slab"
    THEN [state EXCEPT !.slabs[storable.id] = NoValue]
    ELSE state

\* PathCapabilityValue.DeepRemove: the address, then the path
DeepRemove(state, v) ==
    [state EXCEPT !.deepRemoved = @ \o ChildStorables(v)]

\* a plausible slip: the value is removed whatever `remove` is
TransferAlwaysRemoving(state, v, address, remove, storable) ==
    [state EXCEPT !.deepRemoved = @ \o ChildStorables(v),
                  !.slabs = RemoveReferencedSlab(state, storable).slabs,
                  !.result = v]

\* PathCapabilityValue.Transfer
Transfer(state, v, address, remove, storable) ==
    IF remove
    THEN [RemoveReferencedSlab(DeepRemove(state, v), storable) EXCEPT !.result = v]
    ELSE [state EXCEPT !.result = v]

\* PathCapabilityValue.Clone
Clone(v) == PathCapabilityValue(v.BorrowType, v.address, v.Path)

TransferCall(v, address, remove, storable) ==
    [v |-> v, address |-> address, remove |-> remove, storable |-> storable]

NoTransferCall == TransferCall(NoValue, 0, FALSE, InlineStorable(NoValue))

\* the slabs, the controllers, the children deep-removed so far, and the
\* last call of Transfer with its result
TransferState(slabs, controllers) ==
    [slabs |-> slabs, controllers |-> controllers, deepRemoved |-> <<>>,
     calls |-> 0, call |-> NoTransferCall, result |-> NoValue]

NoTransfer == TransferState([id \in SlabIDs |-> NoValue], {})

\* the storables under which the storage holds v
StorablesOf(state, v) ==
    {InlineStorable(v)} \cup {SlabIDStorable(id) : id \in {i \in SlabIDs : state.slabs[i] = v}}

otherThanTransfer ==
    <<storage, migrationVars, member, testVars, semaChecker, hostCall, encoder, comment, applied, matcherTest>>

\* a stored path capability is transferred to an address
InvokeTransfer ==
    /\ transfer.calls < MaxTransfers
    /\ \E v \in SampleValues, address \in Addresses \cup {0}, remove \in BOOLEAN :
           /\ IsPathCapabilityValue(v)
           /\ \E storable \in StorablesOf(transfer, v) :
                  transfer' = [Transfer(transfer, v, address, remove, storable)
                                   EXCEPT !.calls = @ + 1,
                                          !.call = TransferCall(v, address, remove, storable)]
    /\ UNCHANGED otherThanTransfer

\* the transferred value is cloned
InvokeClone ==
    /\ transfer.calls < MaxTransfers
    /\ IsPathCapabilityValue(transfer.result)
    /\ transfer' = [transfer EXCEPT !.calls = @ + 1,
                                    !.call = NoTransferCall,
                                    !.result = Clone(transfer.result)]
    /\ UNCHANGED otherThanTransfer

----------------------------------------------------------------------------
(* Comments (ast/comments.go).  A source is a sequence of characters *)

MaxLen == 4

Characters == {"/", "*", "a"}

RECURSIVE SourcesOfLength(_)
SourcesOfLength(n) ==
    IF n = 0
    THEN {<<>>}
    ELSE {Append(s, ch) : s \in SourcesOfLength(n - 1), ch \in Characters}

Sources == UNION {SourcesOfLength(n) : n \in 0..MaxLen}

blockCommentDocStringPrefix == <<"/", "*", "*">>

blockCommentStringPrefix == <<"/", "*">>

lineCommentDocStringPrefix == <<"/", "/", "/">>

lineCommentStringPrefix == <<"/", "/">>

blockCommentStringSuffix == <<"*", "/">>

\* bytes.HasPrefix, bytes.HasSuffix
HasPrefix(s, prefix) ==
    /\ Len(s) >= Len(prefix)
    /\ SubSeq(s, 1, Len(prefix)) = prefix

HasSuffix(s, suffix) ==
    /\ Len(s) >= Len(suffix)
    /\ SubSeq(s, Len(s) - Len(suffix) + 1, Len(s)) = suffix

\* bytes.CutPrefix, bytes.CutSuffix (the first result)
CutPrefix(s, prefix) ==
    IF HasPrefix(s, prefix) THEN SubSeq(s, Len(prefix) + 1, Len(s)) ELSE s

CutSuffix(s, suffix) ==
    IF HasSuffix(s, suffix) THEN SubSeq(s, 1, Len(s) - Len(suffix)) ELSE s

NewComment(source) == [source |-> source]

\* Comment.Multiline
Multiline(c) == HasPrefix(c.source, blockCommentStringPrefix)

\* a plausible slip: the prefix of a line comment stands for the one of a
\* documentation line comment
DocOfAnyLineComment(c) ==
    IF Multiline(c)
    THEN HasPrefix(c.source, blockCommentDocStringPrefix)
    ELSE HasPrefix(c.source, lineCommentStringPrefix)

\* Comment.Doc
Doc(c) ==
    IF Multiline(c)
    THEN HasPrefix(c.source, blockCommentDocStringPrefix)
    ELSE HasPrefix(c.source, lineCommentDocStringPrefix)

\* every prefix of the list is cut in turn from what the earlier ones left
RECURSIVE cutOptionalPrefixes(_, _)
cutOptionalPrefixes(input, prefixes) ==
    IF prefixes = <<>>
    THEN input
    ELSE cutOptionalPrefixes(CutPrefix(input, Head(prefixes)), Tail(prefixes))

RECURSIVE cutOptionalSuffixes(_, _)
cutOptionalSuffixes(input, suffixes) ==
    IF suffixes = <<>>
    THEN input
    ELSE cutOptionalSuffixes(CutSuffix(input, Head(suffixes)), Tail(suffixes))

\* Comment.Text
Text(c) ==
    cutOptionalSuffixes(
        cutOptionalPrefixes(c.source, <<blockCommentDocStringPrefix,
                                        blockCommentStringPrefix,
                                        lineCommentDocStringPrefix,
                                        lineCommentStringPrefix>>),
        <<blockCommentStringSuffix>>)

\* a comment, the methods called on it so far and what they returned
CommentState(c) ==
    [c |-> c, called |-> {}, multiline |-> FALSE, doc |-> FALSE, text |-> <<>>]

NoComment == CommentState(NewComment(<<>>))

otherThanComment ==
    <<storage, migrationVars, member, testVars, semaChecker, hostCall, encoder, transfer, applied, matcherTest>>

CallMultiline ==
    /\ "Multiline" \notin comment.called
    /\ comment' = [comment EXCEPT !.called = @ \cup {"Multiline"},
                                  !.multiline = Multiline(comment.c)]
    /\ UNCHANGED otherThanComment

CallDoc ==
    /\ "Doc" \notin comment.called
    /\ comment' = [comment EXCEPT !.called = @ \cup {"Doc"},
                                  !.doc = Doc(comment.c)]
    /\ UNCHANGED otherThanComment

CallText ==
    /\ "Text" \notin comment.called
    /\ comment' = [comment EXCEPT !.called = @ \cup {"Text"},
                                  !.text = Text(comment.c)]
    /\ UNCHANGED otherThanComment

----------------------------------------------------------------------------
(* The state of the language components before any of them is used *)

LangIdle ==
    /\ semaChecker = NoChecker
    /\ hostCall = <<>>
    /\ encoder = NoEncoder
    /\ transfer = NoTransfer
    /\ comment = NoComment
    /\ applied = NoApplication
    /\ matcherTest = NoMatcherTest

----------------------------------------------------------------------------
(* The migration run: every stored value is handed to Migrate, and a       *)
(* returned value replaces it; a run that panics stops.  A second run over *)
(* the result of the first uses the same tables.                          *)

NoCall == [cell |-> 0, run |-> 0, value |-> NoValue, result |-> PanicUnexpected]

Init ==
    /\ storage \in [Cells -> StoredValues]
    /\ storage0 = storage
    /\ afterFirstRun = storage
    /\ \E linked \in SUBSET Addresses, reporter \in Reporters :
           migration = CapabilityValueMigration(linked, reporter)
    /\ reported = <<>>
    /\ run = 1
    /\ pos = 1
    /\ phase = "migrating"
    /\ lastCall = NoCall
    /\ member = NoMember
    /\ TestIdle
    /\ LangIdle

\* what the reporter does with the calls it receives
Received(reporter, log, events) ==
    IF reporter = "recording" THEN log \o events ELSE log

MigrateValue ==
    /\ phase = "migrating"
    /\ pos \in Cells
    /\ LET value == storage[pos]
           result == Migrate(migration, StorageKey(pos), value)
       IN  /\ lastCall' = [cell |-> pos, run |-> run, value |-> value, result |-> result]
           /\ reported' = Received(migration.Reporter, reported, result.events)
           /\ storage' = IF result.outcome = "replaced"
                         THEN [storage EXCEPT ![pos] = result.value]
                         ELSE storage
           /\ migration' = MigrationAfterMigrate(migration, StorageKey(pos), value)
           /\ IF result.outcome = "abort"
              THEN phase' = "aborted" /\ pos' = pos
              ELSE phase' = phase /\ pos' = pos + 1
    /\ UNCHANGED <<storage0, afterFirstRun, run, member, testVars, langVars>>

SecondRun ==
    /\ phase = "migrating"
    /\ pos \notin Cells
    /\ run = 1
    /\ run' = 2
    /\ pos' = 1
    /\ afterFirstRun' = storage
    /\ UNCHANGED <<storage, storage0, migration, reported, phase, lastCall, member, testVars, langVars>>

Finish ==
    /\ phase = "migrating"
    /\ pos \notin Cells
    /\ run = 2
    /\ phase' = "done"
    /\ UNCHANGED <<storage, storage0, afterFirstRun, migration, reported, run, pos, lastCall, member, testVars, langVars>>

Next == MigrateValue \/ SecondRun \/ Finish

Spec == Init /\ [][Next]_vars

----------------------------------------------------------------------------
(* Single calls of Migrate: any value under any storage key, with tables   *)
(* that link migrations of any accounts have left behind                   *)

MaxCalls == 1

InitMigrate ==
    /\ storage = [c \in Cells |-> NoValue]
    /\ storage0 = storage
    /\ afterFirstRun = storage
    /\ \E privatePublic \in SUBSET Addresses, typed \in SUBSET Addresses,
          untyped \in SUBSET Addresses, reporter \in Reporters :
           migration = [PrivatePublicCapabilityMapping |-> PrivatePublicMappingOf(privatePublic),
                        StorageCapabilityMapping |-> StorageMappingOf(typed),
                        StorageCapabilityWithoutTypeMapping |->
                            StorageWithoutTypeMappingOf(untyped),
                        Reporter |-> reporter]
    /\ reported = <<>>
    /\ run = 0
    /\ pos = 0
    /\ phase = "idle"
    /\ lastCall = NoCall
    /\ member = NoMember
    /\ TestIdle
    /\ LangIdle

\* one call of Migrate; the caller stores a replacement, which is not
\* followed here
MigrateAnyValue ==
    /\ phase = "idle"
    /\ run < MaxCalls
    /\ \E c \in Cells, value \in StoredValues :
           LET result == Migrate(migration, StorageKey(c), value)
           IN  /\ lastCall' = [cell |-> c, run |-> run + 1, value |-> value,
                               result |-> result]
               /\ reported' = Received(migration.Reporter, reported, result.events)
               /\ migration' = MigrationAfterMigrate(migration, StorageKey(c), value)
               /\ phase' = IF result.outcome = "abort" THEN "aborted" ELSE phase
    /\ run' = run + 1
    /\ UNCHANGED <<storage, storage0, afterFirstRun, pos, member, testVars, langVars>>

NextMigrate == MigrateAnyValue

SpecMigrate == InitMigrate /\ [][NextMigrate]_vars

----------------------------------------------------------------------------
(* The migration asks CanSkip about the static type of a container's elements *)

InitCanSkip ==
    /\ storage = [c \in Cells |-> NoValue]
    /\ storage0 = storage
    /\ afterFirstRun = storage
    /\ migration = CapabilityValueMigration({}, NilReporter)
    /\ reported = <<>>
    /\ run = 0
    /\ pos = 0
    /\ phase = "idle"
    /\ lastCall = NoCall
    /\ member = NoMember
    /\ TestIdle
    /\ semaChecker = NoChecker
    /\ hostCall = <<>>
    /\ encoder = NoEncoder
    /\ transfer = NoTransfer
    /\ comment = NoComment
    /\ \E valueType \in StaticTypesOfDepth(MaxDepth) :
           applied = Application("valueType", <<valueType>>, FALSE)
    /\ matcherTest = NoMatcherTest

NextCanSkip == AskCanSkip

SpecCanSkip == InitCanSkip /\ [][NextCanSkip]_vars

----------------------------------------------------------------------------
(* The test function of a matcher is invoked with a value *)

InitMatcherTest ==
    /\ storage = [c \in Cells |-> NoValue]
    /\ storage0 = storage
    /\ afterFirstRun = storage
    /\ migration = CapabilityValueMigration({}, NilReporter)
    /\ reported = <<>>
    /\ run = 0
    /\ pos = 0
    /\ phase = "idle"
    /\ lastCall = NoCall
    /\ member = NoMember
    /\ TestIdle
    /\ semaChecker = NoChecker
    /\ hostCall = <<>>
    /\ encoder = NoEncoder
    /\ transfer = NoTransfer
    /\ comment = NoComment
    /\ applied = NoApplication
    /\ \E matcher \in Matchers \cup CollectionMatchers, value \in TestedValues :
           matcherTest = MatcherTestState(matcher, <<value>>, "check")

NextMatcherTest == CheckArgumentType \/ InvokeTestFunc

SpecMatcherTest == InitMatcherTest /\ [][NextMatcherTest]_vars

----------------------------------------------------------------------------
(* Claims about the capability migration *)

LastValue == lastCall.value

LastResult == lastCall.result

LastAddressPath == AddressPath(LastValue)

Called == lastCall.cell # 0

CalledOnPathCapability == Called /\ LastValue.kind = "pathcap"

InPrivatePublic ==
    /\ CalledOnPathCapability
    /\ LastValue.Path.Domain \in {PathDomainPrivate, PathDomainPublic}

InStorageTyped ==
    /\ CalledOnPathCapability
    /\ LastValue.Path.Domain = PathDomainStorage
    /\ LastValue.BorrowType # NilType

InStorageUntyped ==
    /\ CalledOnPathCapability
    /\ LastValue.Path.Domain = PathDomainStorage
    /\ LastValue.BorrowType = NilType

PrivatePublicEntryExists ==
    InPrivatePublic /\ LastAddressPath \in DOMAIN migration.PrivatePublicCapabilityMapping

StorageTypedEntryExists ==
    /\ InStorageTyped
    /\ <<LastAddressPath, TypeID(LastValue.BorrowType)>> \in DOMAIN migration.StorageCapabilityMapping

StorageUntypedEntryExists ==
    InStorageUntyped /\ LastAddressPath \in DOMAIN migration.StorageCapabilityWithoutTypeMapping

LookupSucceeds ==
    PrivatePublicEntryExists \/ StorageTypedEntryExists \/ StorageUntypedEntryExists

LookupFails ==
    /\ InPrivatePublic \/ InStorageTyped \/ InStorageUntyped
    /\ ~LookupSucceeds

PrivatePublicEntry == migration.PrivatePublicCapabilityMapping[LastAddressPath]

\* the replacement C1 describes
C1Replacement ==
    [kind |-> "idcap", address |-> LastValue.address, Path |-> NoPath,
     BorrowType |-> IF LastValue.BorrowType # NilType
                    THEN LastValue.BorrowType
                    ELSE PrivatePublicEntry.borrowType,
     ID |-> PrivatePublicEntry.id, b |-> FALSE]

C1Returned ==
    /\ LastResult.outcome = "replaced"
    /\ LastResult.value = C1Replacement
    /\ storage[lastCall.cell] = C1Replacement

\* C1 as stated: every private/public path capability with a mapping entry is
\* replaced by the id capability (mapped id, own address, own borrow type if any).
C1_AsStated == PrivatePublicEntryExists => C1Returned

\* C1, amended: a private/public path capability with a mapping entry whose own
\* borrow type is absent or a reference static type is replaced by the id
\* capability with the mapped id, the old capability's own address and the old
\* capability's borrow type when it has one.
C1_MigratedCapability ==
    /\ PrivatePublicEntryExists
    /\ LastValue.BorrowType = NilType \/ LastValue.BorrowType.tag = "reference"
    => C1Returned

C1_Witness ==
    /\ PrivatePublicEntryExists
    /\ LastValue.BorrowType = RefFoo
    /\ PrivatePublicEntry.borrowType = RefBar
    /\ LastValue.address # StorageKey(lastCall.cell).Address
    /\ LastResult.outcome = "replaced"

\* C2: when the table selected by the path domain has no entry, Migrate returns
\* no change, the stored value stays the path capability, and a reporter receives
\* exactly one MissingCapabilityID and no MigratedPathCapability.
C2_MissingCapabilityID ==
    LookupFails =>
        /\ LastResult.outcome = "nochange"
        /\ LastResult.value = NoValue
        /\ storage[lastCall.cell] = LastValue
        /\ migration.Reporter # NilReporter =>
               /\ Len(LastResult.events) = 1
               /\ LastResult.events[1].event = "MissingCapabilityID"
               /\ LastResult.events[1].accountAddress = StorageKey(lastCall.cell).Address
               /\ LastResult.events[1].addressPath = LastAddressPath
        /\ migration.Reporter = NilReporter => LastResult.events = <<>>
        /\ migration.Reporter = "recording" =>
               /\ Len(reported) >= 1
               /\ reported[Len(reported)].event = "MissingCapabilityID"

C2_Witness ==
    /\ LookupFails
    /\ migration.Reporter = "recording"
    /\ LastValue.Path.Domain = PathDomainPublic
    /\ storage[lastCall.cell] = LastValue
    /\ Len(reported) = 1

\* C3: a path capability without a borrow type whose lookup succeeds, in the
\* private/public table or in the storage table without types, is replaced by an
\* id capability that carries the borrow type recorded for the controller.
C3_ControllerBorrowType ==
    /\ PrivatePublicEntryExists /\ LastValue.BorrowType = NilType =>
           /\ LastResult.outcome = "replaced"
           /\ LastResult.value.kind = "idcap"
           /\ LastResult.value.BorrowType = PrivatePublicEntry.borrowType
    /\ StorageUntypedEntryExists =>
           /\ LastResult.outcome = "replaced"
           /\ LastResult.value.kind = "idcap"
           /\ LastResult.value.BorrowType =
                  migration.StorageCapabilityWithoutTypeMapping[LastAddressPath].borrowType

C3_Witness ==
    /\ phase = "done"
    /\ \E c, d \in Cells :
           /\ storage0[c].kind = "pathcap" /\ storage0[c].BorrowType = NilType
           /\ storage0[c].Path.Domain = PathDomainPrivate
           /\ storage[c].kind = "idcap" /\ storage[c].BorrowType = RefFoo
           /\ storage0[d].kind = "pathcap" /\ storage0[d].BorrowType = NilType
           /\ storage0[d].Path.Domain = PathDomainStorage
           /\ storage[d].kind = "idcap" /\ storage[d].BorrowType = RefBar

\* the borrow type the migration ends with: the capability's own, or the
\* controller's when its own is absent and the lookup succeeded
BorrowTypeNotReference ==
    /\ CalledOnPathCapability
    /\ LastValue.BorrowType # NilType
    /\ LastValue.BorrowType.tag # "reference"

Aborted ==
    /\ LastResult.outcome = "abort"
    /\ LastResult.value = NoValue
    /\ LastResult.events = <<>>
    /\ storage[lastCall.cell] = LastValue
    /\ phase = "aborted"

\* C4 as stated: whenever the borrow type is not a reference static type,
\* Migrate aborts with an internal error.
C4_AsStated == BorrowTypeNotReference => Aborted

\* C4, amended: when the borrow type is not a reference static type and the
\* table lookup succeeds, Migrate aborts with an internal error, returns no
\* replacement and reports nothing; when the lookup fails it returns no change and
\* reports the missing id.  In no case is there a replacement or a
\* MigratedPathCapability event.
C4_NonReferenceBorrowType ==
    /\ BorrowTypeNotReference /\ LookupSucceeds => Aborted
    /\ BorrowTypeNotReference /\ LookupFails => LastResult.outcome = "nochange"
    /\ BorrowTypeNotReference =>
           /\ LastResult.outcome # "replaced"
           /\ LastResult.value = NoValue
           /\ \A i \in 1..Len(LastResult.events) :
                  LastResult.events[i].event # "MigratedPathCapability"

C4_Witness ==
    /\ BorrowTypeNotReference
    /\ StorageTypedEntryExists
    /\ LastResult.outcome = "abort"
    /\ phase = "aborted"

\* C5: the second run over the result of the first returns no replacement for
\* any value, and leaves every stored value as the first run left it.
C5_Idempotence ==
    /\ lastCall.run = 2 => LastResult.outcome = "nochange" /\ LastResult.value = NoValue
    /\ run = 2 => storage = afterFirstRun

C5_Witness ==
    /\ phase = "done"
    /\ \E c, d \in Cells :
           /\ storage0[c].kind = "pathcap" /\ storage[c].kind = "idcap"
           /\ storage0[d].kind = "pathcap" /\ storage[d] = storage0[d]

\* C6: a value whose static type satisfies CanSkip is the same after the
\* migration and Migrate returns no replacement for it; no path capability has a
\* static type that satisfies CanSkip.
C6_NonTargetsPreserved ==
    /\ \A c \in Cells : CanSkip(StaticType(storage0[c])) => storage[c] = storage0[c]
    /\ Called /\ CanSkip(StaticType(LastValue)) =>
           LastResult.outcome = "nochange" /\ LastResult.value = NoValue
    /\ \A c \in Cells : storage0[c].kind = "pathcap" => ~CanSkip(StaticType(storage0[c]))

C6_Witness ==
    /\ Called
    /\ CanSkip(StaticType(LastValue))
    /\ LastResult.outcome = "nochange"
    /\ storage # storage0

----------------------------------------------------------------------------
(* The member operations of stored path capabilities *)

InitValue ==
    /\ storage = [c \in Cells |-> NoValue]
    /\ storage0 = storage
    /\ afterFirstRun = storage
    /\ migration = CapabilityValueMigration({}, NilReporter)
    /\ reported = <<>>
    /\ run = 0
    /\ pos = 0
    /\ phase = "idle"
    /\ lastCall = NoCall
    /\ member = NoMember
    /\ TestIdle
    /\ LangIdle

\* v.GetMember(interpreter, locationRange, name) on a stored path capability
GetMemberOf ==
    \E c \in Cells, name \in MemberNames :
        /\ IsPathCapabilityValue(storage[c])
        /\ member' = [cell |-> c, name |-> name, got |-> GetMember(storage[c], name),
                      calls |-> 0, result |-> NoValue]
        /\ UNCHANGED <<storage, migrationVars, testVars, langVars>>

\* the function got as a member is invoked
InvokeMember ==
    /\ member.got.kind \in {"borrow", "check"}
    /\ member.calls < MaxInvocations
    /\ member' = [member EXCEPT
                     !.calls = @ + 1,
                     !.result = InvokeFunction(member.got, Invocation(member.got.self, storage))]
    /\ UNCHANGED <<storage, migrationVars, testVars, langVars>>

\* the program stores another value under a storage key
Save ==
    \E c \in Cells, v \in SampleValues :
        /\ storage' = [storage EXCEPT ![c] = v]
        /\ UNCHANGED <<migrationVars, member, testVars, langVars>>

NextValue == GetMemberOf \/ InvokeMember \/ Save

SpecValue == InitValue /\ [][NextValue]_vars

----------------------------------------------------------------------------
(* The callers of the Test standard library *)

InitTest ==
    /\ storage = [c \in Cells |-> BoolValue(TRUE)]
    /\ storage0 = storage
    /\ afterFirstRun = storage
    /\ migration = CapabilityValueMigration({}, NilReporter)
    /\ reported = <<>>
    /\ run = 0
    /\ pos = 0
    /\ phase = "idle"
    /\ lastCall = NoCall
    /\ member = NoMember
    /\ TestIdle
    /\ LangIdle

NextTest ==
    \E p \in Procs :
        \/ Call(p)
        \/ OnceDo(p)
        \/ OnceLock(p)
        \/ OnceDoSlow(p)
        \/ InitTestStep(p)
        \/ OnceStoreDone(p)
        \/ OnceUnlock(p)
        \/ Return(p)
        \/ InvokeConstructor(p)
        \/ InjectFunctions(p)
        \/ CheckerContractValueHandler(p)
        \/ InvokeHostFunction(p)

SpecTest == InitTest /\ [][NextTest]_vars

----------------------------------------------------------------------------
(* The checker checks a program: a composite and the interfaces it conforms to *)

InitChecker ==
    /\ storage = [c \in Cells |-> NoValue]
    /\ storage0 = storage
    /\ afterFirstRun = storage
    /\ migration = CapabilityValueMigration({}, NilReporter)
    /\ reported = <<>>
    /\ run = 0
    /\ pos = 0
    /\ phase = "idle"
    /\ lastCall = NoCall
    /\ member = NoMember
    /\ TestIdle
    /\ hostCall = <<>>
    /\ encoder = NoEncoder
    /\ transfer = NoTransfer
    /\ comment = NoComment
    /\ applied = NoApplication
    /\ matcherTest = NoMatcherTest
    /\ \E program \in Programs :
           semaChecker = [program |-> program, position |-> 1, errors |-> <<>>,
                          status |-> "checking"]

NextChecker == CheckNextConformance \/ FinishCheck

SpecChecker == InitChecker /\ [][NextChecker]_vars

----------------------------------------------------------------------------
(* A test calls functions of the Test contract until one of them fails *)

InitTestFunctions ==
    /\ storage = [c \in Cells |-> NoValue]
    /\ storage0 = storage
    /\ afterFirstRun = storage
    /\ migration = CapabilityValueMigration({}, NilReporter)
    /\ reported = <<>>
    /\ run = 0
    /\ pos = 0
    /\ phase = "idle"
    /\ lastCall = NoCall
    /\ member = NoMember
    /\ TestIdle
    /\ LangIdle

NextTestFunctions == InvokeAssert \/ InvokeFail \/ InvokeExpect

SpecTestFunctions == InitTestFunctions /\ [][NextTestFunctions]_vars

----------------------------------------------------------------------------
(* One path capability is encoded; any one of the writes may fail *)

InitEncode ==
    /\ storage = [c \in Cells |-> NoValue]
    /\ storage0 = storage
    /\ afterFirstRun = storage
    /\ migration = CapabilityValueMigration({}, NilReporter)
    /\ reported = <<>>
    /\ run = 0
    /\ pos = 0
    /\ phase = "idle"
    /\ lastCall = NoCall
    /\ member = NoMember
    /\ TestIdle
    /\ semaChecker = NoChecker
    /\ hostCall = <<>>
    /\ transfer = NoTransfer
    /\ comment = NoComment
    /\ applied = NoApplication
    /\ matcherTest = NoMatcherTest
    /\ \E v \in PathCapabilityValues, failing \in EncodeSteps \cup {"none"} :
           encoder = EncoderState(v, failing, "head", <<>>, "", NoValue)

NextEncode ==
    \/ EncodeTagAndArrayHead
    \/ EncodeAddress
    \/ EncodePath
    \/ EncodeBorrowType
    \/ DecodeStored

SpecEncode == InitEncode /\ [][NextEncode]_vars

----------------------------------------------------------------------------
(* Stored path capabilities are transferred, with and without removal *)

InitTransfer ==
    /\ storage = [c \in Cells |-> NoValue]
    /\ storage0 = storage
    /\ afterFirstRun = storage
    /\ migration = CapabilityValueMigration({}, NilReporter)
    /\ reported = <<>>
    /\ run = 0
    /\ pos = 0
    /\ phase = "idle"
    /\ lastCall = NoCall
    /\ member = NoMember
    /\ TestIdle
    /\ semaChecker = NoChecker
    /\ hostCall = <<>>
    /\ encoder = NoEncoder
    /\ comment = NoComment
    /\ applied = NoApplication
    /\ matcherTest = NoMatcherTest
    /\ \E slabs \in [SlabIDs -> {v \in SampleValues : IsPathCapabilityValue(v)}
                                    \cup {NoValue}] :
           transfer = TransferState(slabs, CapabilityControllers)

NextTransfer == InvokeTransfer \/ InvokeClone

SpecTransfer == InitTransfer /\ [][NextTransfer]_vars

----------------------------------------------------------------------------
(* A comment is made of any source and its methods are called *)

InitComment ==
    /\ storage = [c \in Cells |-> NoValue]
    /\ storage0 = storage
    /\ afterFirstRun = storage
    /\ migration = CapabilityValueMigration({}, NilReporter)
    /\ reported = <<>>
    /\ run = 0
    /\ pos = 0
    /\ phase = "idle"
    /\ lastCall = NoCall
    /\ member = NoMember
    /\ TestIdle
    /\ semaChecker = NoChecker
    /\ hostCall = <<>>
    /\ encoder = NoEncoder
    /\ transfer = NoTransfer
    /\ applied = NoApplication
    /\ matcherTest = NoMatcherTest
    /\ \E source \in Sources : comment = CommentState(NewComment(source))

NextComment == CallMultiline \/ CallDoc \/ CallText

SpecComment == InitComment /\ [][NextComment]_vars

----------------------------------------------------------------------------
(* Claims about the members of a path capability *)

\* C7: every invocation of the function got as the borrow member of a path
\* capability returns nil, every invocation of the one got as its check member
\* returns false, whatever the storage holds, and no invocation changes the storage.
C7_BorrowAndCheck ==
    [][member'.calls = member.calls + 1 =>
          /\ storage' = storage
          /\ member.got.kind = "borrow" => member'.result = Nil
          /\ member.got.kind = "check" => member'.result = FalseValue]_vars

C7_Witness ==
    /\ member.calls = MaxInvocations
    /\ member.got.kind = "borrow"
    /\ member.got.self.BorrowType = RefFoo
    /\ member.result = Nil
    /\ \E c \in Cells :
           /\ StorageKey(c).Address = member.got.self.address
           /\ storage[c].kind = "bool"

----------------------------------------------------------------------------
(* Claims about the Test standard library *)

FullChecker == [assigned |-> TRUE, checked |-> TRUE, compositeTypes |-> {"EmulatorBackend"}]

FullContractType == [assigned |-> TRUE, Members |-> TestFunctionNames]

FullInitializerTypes == [assigned |-> TRUE, types |-> <<>>]

\* C9: initTest runs at most once, and an accessor call returns only after that
\* run has completed: what it sees is the completely initialised checker, type
\* and initializer types, and no run of initTest is in progress.
C9_InitializedOnce ==
    /\ initRuns <= 1
    /\ observed # NoObservation =>
           /\ observed.checker = FullChecker
           /\ observed.type = FullContractType
           /\ observed.initializerTypes = FullInitializerTypes
    /\ \A p \in Procs :
           pc[p] \in {"return", "construct", "inject"} =>
               /\ onceDone
               /\ initRuns = 1
               /\ \A q \in Procs : pc[q] # "init"
               /\ testContractChecker = FullChecker
               /\ testContractType = FullContractType
               /\ testContractInitializerTypes = FullInitializerTypes

C9_Witness ==
    /\ observed.callee = "TestContractChecker"
    /\ observed.checker = FullChecker
    /\ initRuns = 1
    /\ \E p, q \in Procs : p # q /\ pc[p] = "return" /\ pc[q] = "lock"

\* C10: once initTest has completed, no step of the library changes the
\* checker, the contract type's member table or the initializer types, and every
\* step that changes one of them is a statement of initTest.
C10_SingletonImmutable ==
    [][/\ onceDone =>
              /\ testContractChecker' = testContractChecker
              /\ testContractType' = testContractType
              /\ testContractInitializerTypes' = testContractInitializerTypes
       /\ \/ testContractChecker' # testContractChecker
          \/ testContractType' # testContractType
          \/ testContractInitializerTypes' # testContractInitializerTypes
          => \E p \in Procs : pc[p] = "init" /\ initStep[p] \in DOMAIN InitTestSteps]_vars

C10_Witness ==
    /\ onceDone
    /\ contractValue.status = "ok"
    /\ \E p \in Procs : pc[p] = "invoke" /\ callee[p] = "newMatcher"
    /\ testContractType = FullContractType
    /\ testContractChecker = FullChecker

----------------------------------------------------------------------------
(* Claims about conformance checking *)

Checked == semaChecker.status \in {"elaborated", "errors"}

CheckedComposite == semaChecker.program.composite

CheckedInterfaces == semaChecker.program.interfaces

\* how many Conformance errors the checker reported for the composite of a name
ConformanceErrorsFor(name) ==
    Cardinality({i \in DOMAIN semaChecker.errors :
                    /\ semaChecker.errors[i].kind = "Conformance"
                    /\ semaChecker.errors[i].CompositeType = name})

\* the declaration has a member of the name of the required one, with identical
\* argument labels, equal parameter types and a return type that is a subtype;
\* a member the interface implements is inherited when it is not declared
HasMatchingMember(declaration, required) ==
    \/ \E i \in DOMAIN declaration.members :
           LET own == declaration.members[i]
           IN  /\ own.name = required.name
               /\ own.kind = required.kind
               /\ Len(own.parameters) = Len(required.parameters)
               /\ \A k \in DOMAIN required.parameters :
                      /\ own.parameters[k].Label = required.parameters[k].Label
                      /\ own.parameters[k].Type = required.parameters[k].Type
               /\ \/ own.type = required.type
                  \/ own.type = R /\ required.type = RI
    \/ /\ required.hasImplementation
       /\ \A i \in DOMAIN declaration.members : declaration.members[i].name # required.name

\* the declaration's initializer has the parameters of the required one
HasMatchingInitializer(declaration, required) ==
    required.declared =>
        /\ Len(declaration.initializer.parameters) = Len(required.parameters)
        /\ \A k \in DOMAIN required.parameters :
               /\ declaration.initializer.parameters[k].Label = required.parameters[k].Label
               /\ declaration.initializer.parameters[k].Type = required.parameters[k].Type

\* the composite meets what interface i requires of the composite itself
MeetsInterface(i) ==
    LET interface == CheckedInterfaces[i]
    IN  /\ \A m \in DOMAIN interface.members :
               HasMatchingMember(CheckedComposite, interface.members[m])
        /\ HasMatchingInitializer(CheckedComposite, interface.initializer)
        /\ \A t \in DOMAIN interface.nested :
               interface.nested[t].kind # "event" =>
                   \E n \in DOMAIN CheckedComposite.nested :
                       /\ CheckedComposite.nested[n].name = interface.nested[t].name
                       /\ CheckedComposite.nested[n].kind = interface.nested[t].kind

\* nested declaration n of the composite meets the type requirement of its
\* name that interface i imposes, if it imposes one
NestedMeetsInterface(n, i) ==
    \A t \in DOMAIN CheckedInterfaces[i].nested :
        LET required == CheckedInterfaces[i].nested[t]
            nested == CheckedComposite.nested[n]
        IN  (required.kind # "event" /\ required.name = nested.name
                 /\ required.kind = nested.kind) =>
                \A m \in DOMAIN required.members :
                    HasMatchingMember(nested, required.members[m])

FailedInterfaces == {i \in DOMAIN CheckedInterfaces : ~MeetsInterface(i)}

NestedFailedInterfaces(n) == {i \in DOMAIN CheckedInterfaces : ~NestedMeetsInterface(n, i)}

DeclaresEvent(declaration, name) ==
    \E n \in DOMAIN declaration.nested :
        declaration.nested[n].kind = "event" /\ declaration.nested[n].name = name

\* C12: an event of an interface is no type requirement: no error is about it,
\* and a composite that meets what the interface otherwise requires checks
\* without error, whether it declares an event of that name with other
\* parameters or none.
C12_EventsExempt ==
    Checked =>
        /\ \A i \in DOMAIN semaChecker.errors :
               /\ semaChecker.errors[i].CompositeType # "E"
               /\ \A k \in DOMAIN semaChecker.errors[i].MissingNestedCompositeTypes :
                      semaChecker.errors[i].MissingNestedCompositeTypes[k] # "E"
        /\ (/\ Len(CheckedInterfaces) = 1
            /\ DeclaresEvent(CheckedInterfaces[1], "E")
            /\ CheckedInterfaces[1].members = <<>>
            /\ \A t \in DOMAIN CheckedInterfaces[1].nested :
                   CheckedInterfaces[1].nested[t].kind # "event" =>
                       \E n \in DOMAIN CheckedComposite.nested :
                           CheckedComposite.nested[n] = CheckedInterfaces[1].nested[t])
               => semaChecker.status = "elaborated"

C12_Witness ==
    /\ semaChecker.status = "elaborated"
    /\ Len(CheckedInterfaces) = 1
    /\ \E t \in DOMAIN CheckedInterfaces[1].nested :
           /\ CheckedInterfaces[1].nested[t].kind = "event"
           /\ CheckedInterfaces[1].nested[t].name = "E"
           /\ CheckedInterfaces[1].nested[t].members[1].name = "a"
    /\ \E n \in DOMAIN CheckedComposite.nested :
           /\ CheckedComposite.nested[n].kind = "event"
           /\ CheckedComposite.nested[n].name = "E"
           /\ CheckedComposite.nested[n].members[1].name = "b"

\* the names of the members of interface i that the composite does not have
LackedMembers(i) ==
    LET required == CheckedInterfaces[i].members
        lacked == SelectSeq(required,
                      LAMBDA m : /\ ~m.hasImplementation
                                 /\ \A k \in DOMAIN CheckedComposite.members :
                                        CheckedComposite.members[k].name # m.name)
    IN  [k \in DOMAIN lacked |-> lacked[k].name]

\* the names of the nested types of interface i that the composite does not have
LackedTypes(i) ==
    LET required == CheckedInterfaces[i].nested
        lacked == SelectSeq(required,
                      LAMBDA t : /\ t.kind # "event"
                                 /\ \A k \in DOMAIN CheckedComposite.nested :
                                        \/ CheckedComposite.nested[k].name # t.name
                                        \/ CheckedComposite.nested[k].kind # t.kind)
    IN  [k \in DOMAIN lacked |-> lacked[k].name]

\* `n1`, `n2`, ... with each name prefixed
ListedNames(prefix, names) ==
    CASE Len(names) = 1 -> <<Quoted(prefix \o names[1])>>
      [] Len(names) = 2 ->
             <<Quoted(prefix \o names[1]), Plain(", "), Quoted(prefix \o names[2])>>
      [] Len(names) = 3 ->
             <<Quoted(prefix \o names[1]), Plain(", "), Quoted(prefix \o names[2]),
               Plain(", "), Quoted(prefix \o names[3])>>

\* the secondary message the claim describes for interface i
DescribedMessage(i) ==
    LET c == CheckedComposite.name
        prefix == CheckedInterfaces[i].name \o "."
    IN  IF LackedTypes(i) = <<>>
        THEN <<Quoted(c), Plain(" is missing definitions for members: ")>>
                 \o ListedNames("", LackedMembers(i))
        ELSE IF LackedMembers(i) = <<>>
        THEN <<Quoted(c), Plain(" is missing definitions for types: ")>>
                 \o ListedNames(prefix, LackedTypes(i))
        ELSE <<Quoted(c), Plain(" is missing definitions for members: ")>>
                 \o ListedNames("", LackedMembers(i))
                 \o <<Plain(". "), Quoted(c), Plain(" is also missing definitions for types: ")>>
                 \o ListedNames(prefix, LackedTypes(i))

ErrorsForInterface(i) ==
    {k \in DOMAIN semaChecker.errors :
        /\ semaChecker.errors[k].kind = "Conformance"
        /\ semaChecker.errors[k].CompositeType = CheckedComposite.name
        /\ semaChecker.errors[k].InterfaceType = CheckedInterfaces[i].name}

MismatchedMembers(i) ==
    {m \in DOMAIN CheckedInterfaces[i].members :
        /\ \E k \in DOMAIN CheckedComposite.members :
               CheckedComposite.members[k].name = CheckedInterfaces[i].members[m].name
        /\ ~HasMatchingMember(CheckedComposite, CheckedInterfaces[i].members[m])}

\* the range of `init` in resource R of the test "initializer notes"
InitializerNotesRange ==
    [StartPos |-> [Offset |-> 158, Line |-> 9, Column |-> 8],
     EndPos |-> [Offset |-> 161, Line |-> 9, Column |-> 11]]

----------------------------------------------------------------------------
(* Claims about the functions of the Test contract *)

\* the message given to assert (second argument) or fail (first), empty when omitted
GivenMessage(call) ==
    LET at == IF call.function = "assert" THEN 2 ELSE 1
    IN  IF Len(call.arguments) >= at THEN call.arguments[at].str ELSE ""

AssertAndFailSignal(call) ==
    /\ call.function = "assert" =>
           IF call.arguments[1].b
           THEN call.outcome = Returned(Void)
           ELSE /\ call.outcome.kind = "AssertionError"
                /\ call.outcome.Message = GivenMessage(call)
    /\ call.function = "fail" =>
           /\ call.outcome.kind = "AssertionError"
           /\ call.outcome.Message = GivenMessage(call)

\* what the test function of the matcher of an expect call does with its value
MatcherResult(call) == MatcherTestFunction(call.matcher, call.arguments[1])

TestReturnsFalse(call) ==
    MatcherResult(call).kind = "return" /\ ~MatcherResult(call).value.b

TestReturnsTrue(call) ==
    MatcherResult(call).kind = "return" /\ MatcherResult(call).value.b

\* C16 as stated: assert fails with the message exactly when its condition is
\* false, fail always fails, and expect raises an AssertionError exactly when
\* the matcher's test returns false and returns Void otherwise.
C16_AsStated ==
    \A i \in DOMAIN hostCall :
        /\ AssertAndFailSignal(hostCall[i])
        /\ hostCall[i].function = "expect" =>
               /\ hostCall[i].outcome.kind = "AssertionError" <=> TestReturnsFalse(hostCall[i])
               /\ ~TestReturnsFalse(hostCall[i]) => hostCall[i].outcome = Returned(Void)

\* C16: assert fails with the message exactly when its condition is false,
\* fail always fails, and expect raises an AssertionError exactly when the
\* matcher's test returns false, returns Void exactly when it returns true,
\* and fails with the error of the test function when that function fails.
C16_TestFailureSignalling ==
    \A i \in DOMAIN hostCall :
        /\ AssertAndFailSignal(hostCall[i])
        /\ hostCall[i].function = "expect" =>
               /\ hostCall[i].outcome.kind = "AssertionError" <=> TestReturnsFalse(hostCall[i])
               /\ hostCall[i].outcome = Returned(Void) <=> TestReturnsTrue(hostCall[i])
               /\ MatcherResult(hostCall[i]).kind # "return" =>
                      hostCall[i].outcome = MatcherResult(hostCall[i])

C16_Witness ==
    /\ Len(hostCall) = 2
    /\ hostCall[1].function = "expect"
    /\ hostCall[1].matcher.name = "equal"
    /\ hostCall[1].outcome = Returned(Void)
    /\ hostCall[2].function = "expect"
    /\ hostCall[2].matcher.name = "beEmpty"
    /\ hostCall[2].arguments = <<TestIntValue(1)>>
    /\ hostCall[2].outcome.kind = "DefaultUserError"

----------------------------------------------------------------------------
(* Claims about the encoding of a path capability *)

\* the elements of the encoding of v, as the format lists them
ElementsInOrder(v) ==
    <<RawByte("0xd8"), RawByte("CBORTagPathCapabilityValue"), RawByte("0x83"),
      EncodedAddress(v.address),
      EncodedPath(v.Path),
      IF v.BorrowType = NilType THEN EncodedNil ELSE EncodedStaticType(v.BorrowType)>>

\* the number of items written before the write of a step
ItemsBefore(step) ==
    CASE step = "head" -> 0
      [] step = "address" -> 3
      [] step = "path" -> 4
      [] step = "borrowType" -> 5

\* C17: Encode writes, in this order, the path-capability tag with the head of
\* a 3-element array, the address, the path, and the borrow type or CBOR nil
\* when there is none; when a write returns an error, Encode returns that
\* error and nothing more is ever written.
C17_EncodeOrder ==
    encoder.pc # "idle" =>
        LET expected == ElementsInOrder(encoder.v)
            n == Len(encoder.written)
        IN  /\ n <= Len(expected)
            /\ encoder.written = SubSeq(expected, 1, n)
            /\ (encoder.pc \in {"return", "decoded"} /\ encoder.failing = "none") =>
                   /\ encoder.err = ""
                   /\ encoder.written = expected
            /\ encoder.failing # "none" =>
                   /\ n <= ItemsBefore(encoder.failing)
                   /\ encoder.pc \in {"return", "decoded"} =>
                          /\ encoder.pc = "return"
                          /\ encoder.err = EncodeError(encoder.failing)
                          /\ n = ItemsBefore(encoder.failing)

C17_Witness ==
    /\ encoder.pc = "return"
    /\ encoder.failing = "path"
    /\ encoder.err = EncodeError("path")
    /\ Len(encoder.written) = 4
    /\ encoder.v.BorrowType = RefFoo

\* C18: decoding the encoding of a path capability, with or without a borrow
\* type, gives a path capability with the same address, the same path and
\* the same borrow type or absence of one; and no path capability that is
\* not Equal to it has the same encoding.
C18_EncodingRoundTrip ==
    encoder.pc = "decoded" =>
        /\ IsPathCapabilityValue(encoder.decoded)
        /\ encoder.decoded.address = encoder.v.address
        /\ encoder.decoded.Path = encoder.v.Path
        /\ encoder.decoded.BorrowType = encoder.v.BorrowType
        /\ Equal(encoder.v, encoder.decoded)
        /\ \A w \in PathCapabilityValues :
               ~Equal(encoder.v, w) => Encode(w) # encoder.written

C18_Witness ==
    /\ encoder.pc = "decoded"
    /\ encoder.v.BorrowType = RefBar
    /\ encoder.v.address = 2
    /\ encoder.decoded = encoder.v

----------------------------------------------------------------------------
(* Claims about the transfer of a path capability *)

\* a step that is a call of Transfer
TransferStep ==
    /\ transfer'.calls = transfer.calls + 1
    /\ transfer'.call # NoTransferCall

\* C19: Transfer of a path capability, to any address and with either value
\* of remove, returns a capability with the address, path and borrow type of
\* the source and changes no capability controller; the children of the
\* source are deep-removed and the slab it is referred to by is freed when
\* remove is true, and nothing is removed when remove is false.
C19_TransferFrame ==
    [][TransferStep =>
          LET call == transfer'.call
              result == transfer'.result
          IN  /\ IsPathCapabilityValue(result)
              /\ result.address = call.v.address
              /\ result.Path = call.v.Path
              /\ result.BorrowType = call.v.BorrowType
              /\ transfer'.controllers = transfer.controllers
              /\ call.remove =>
                     /\ transfer'.deepRemoved =
                            transfer.deepRemoved
                                \o <<[child |-> "address", of |-> call.v],
                                      [child |-> "path", of |-> call.v]>>
                     /\ \A id \in SlabIDs :
                            transfer'.slabs[id] =
                                IF call.storable.kind = "slab" /\ call.storable.id = id
                                THEN NoValue
                                ELSE transfer.slabs[id]
              /\ ~call.remove =>
                     /\ transfer'.deepRemoved = transfer.deepRemoved
                     /\ transfer'.slabs = transfer.slabs]_vars

C19_Witness ==
    /\ transfer.calls = 2
    /\ transfer.call.remove
    /\ transfer.call.storable = SlabIDStorable(2)
    /\ transfer.slabs[2] = NoValue
    /\ transfer.slabs[1] = transfer.call.v
    /\ Len(transfer.deepRemoved) = 2
    /\ transfer.result.BorrowType = RefFoo

----------------------------------------------------------------------------
(* Claims about comments *)

\* the source begins with the given characters
StartsWith(source, first) ==
    /\ Len(source) >= Len(first)
    /\ \A i \in 1..Len(first) : source[i] = first[i]

\* the two classes of a comment
IsMultilineComment == comment.multiline

IsLineComment == ~comment.multiline

\* C20: Multiline() is true exactly of the sources that start with "/*";
\* Doc() is true exactly when the comment is multiline and starts with "/**"
\* or is a line comment and starts with "///"; and every comment is exactly
\* one of multiline and line.
C20_CommentClassification ==
    /\ "Multiline" \in comment.called =>
           /\ comment.multiline <=> StartsWith(comment.c.source, <<"/", "*">>)
           /\ IsMultilineComment # IsLineComment
    /\ {"Multiline", "Doc"} \subseteq comment.called =>
           (comment.doc <=>
                \/ IsMultilineComment /\ StartsWith(comment.c.source, <<"/", "*", "*">>)
                \/ IsLineComment /\ StartsWith(comment.c.source, <<"/", "/", "/">>))

C20_Witness ==
    /\ {"Multiline", "Doc"} \subseteq comment.called
    /\ comment.c.source = <<"/", "/", "/", "a">>
    /\ comment.doc
    /\ ~comment.multiline

----------------------------------------------------------------------------
(* Further claims about the capability migration *)

\* the three capability mapping tables of a migration
MappingTables(m) ==
    <<m.PrivatePublicCapabilityMapping, m.StorageCapabilityMapping,
      m.StorageCapabilityWithoutTypeMapping>>

\* C21: no execution of Migrate, on any value and with any outcome, adds,
\* removes or changes an entry of the private/public mapping, the storage
\* mapping or the storage mapping without types.
C21_TablesReadOnly ==
    [][MappingTables(migration') = MappingTables(migration)]_vars

C21_Witness ==
    /\ phase = "aborted"
    /\ lastCall.cell = 2
    /\ Len(reported) = 1
    /\ reported[1].event = "MigratedPathCapability"
    /\ DOMAIN migration.PrivatePublicCapabilityMapping # {}
    /\ MappingTables(migration) =
           MappingTables(CapabilityValueMigration({1}, migration.Reporter))

\* the migration with other contents of the two tables named
WithOtherTables(m, tables, first, second) ==
    [m EXCEPT
        !.PrivatePublicCapabilityMapping =
            IF "privatePublic" \in tables THEN PrivatePublicMappingOf(first) ELSE @,
        !.StorageCapabilityMapping =
            IF "typed" \in tables
            THEN StorageMappingOf(IF "privatePublic" \in tables THEN second ELSE first)
            ELSE @,
        !.StorageCapabilityWithoutTypeMapping =
            IF "untyped" \in tables THEN StorageWithoutTypeMappingOf(second) ELSE @]

\* the result of the last call does not depend on the two tables named
IndependentOf(tables) ==
    \A first \in SUBSET Addresses, second \in SUBSET Addresses :
        Migrate(WithOtherTables(migration, tables, first, second),
                StorageKey(lastCall.cell), LastValue) = LastResult

\* C22: a public or private path capability is looked up only in the
\* private/public mapping; a storage path capability with a borrow type only
\* in the storage mapping, by address path and borrow type id, without falling
\* back to the table without types; a storage path capability without a
\* borrow type only in the storage mapping without types; any other path
\* domain aborts with an internal error before any report is emitted.
C22_TableSelection ==
    CalledOnPathCapability =>
        /\ InPrivatePublic =>
               /\ IndependentOf({"typed", "untyped"})
               /\ (LastResult.outcome = "nochange") <=>
                      LastAddressPath \notin DOMAIN migration.PrivatePublicCapabilityMapping
        /\ InStorageTyped =>
               /\ IndependentOf({"privatePublic", "untyped"})
               /\ (LastResult.outcome = "nochange") <=>
                      <<LastAddressPath, TypeID(LastValue.BorrowType)>>
                          \notin DOMAIN migration.StorageCapabilityMapping
        /\ InStorageUntyped =>
               /\ IndependentOf({"privatePublic", "typed"})
               /\ (LastResult.outcome = "nochange") <=>
                      LastAddressPath
                          \notin DOMAIN migration.StorageCapabilityWithoutTypeMapping
        /\ ~(InPrivatePublic \/ InStorageTyped \/ InStorageUntyped) =>
               /\ LastResult.outcome = "abort"
               /\ LastResult.events = <<>>
               /\ phase = "aborted"

\* a storage capability with a borrow type misses the typed table although
\* the table without types has an entry for its address path
C22_Witness ==
    /\ InStorageTyped
    /\ LastValue.BorrowType = RefBar
    /\ LastAddressPath \in DOMAIN migration.StorageCapabilityWithoutTypeMapping
    /\ LastResult.outcome = "nochange"
    /\ migration.Reporter = "recording"
    /\ Len(reported) = 1

----------------------------------------------------------------------------
(* Claims about CanSkip *)

\* the primitive static types that the claim lists: the seven named ones, the
\* number types and the path types, none of them deprecated
ListedPrimitives ==
    {"Bool", "Void", "Address", "MetaType", "Block", "String", "Character"}
        \cup {"Int", "UInt8", "UFix64", "Number"}
        \cup {"Path", "StoragePath", "PublicPath"}

\* a static type built from the given primitive types with the array,
\* dictionary and optional constructors only
RECURSIVE BuiltFrom(_, _)
BuiltFrom(primitives, t) ==
    \/ t.tag = "primitive" /\ t.name \in primitives
    \/ t.tag \in {"array", "optional"} /\ BuiltFrom(primitives, t.args[1])
    \/ t.tag = "dictionary" /\ BuiltFrom(primitives, t.args[1])
                            /\ BuiltFrom(primitives, t.args[2])

\* a capability type occurs in the static type, at any depth
RECURSIVE CapabilityOccursIn(_)
CapabilityOccursIn(t) ==
    \/ t.tag = "capability"
    \/ t.tag = "primitive" /\ t.name = "Capability"
    \/ t.tag = "reference" /\ t.name = "Capability"
    \/ \E i \in DOMAIN t.args : t.args[i] # NilType /\ CapabilityOccursIn(t.args[i])

AskedCanSkip == applied.function = "CanSkip"

\* C23 as stated: CanSkip is true exactly for the static types built from the
\* listed primitive types.
C23_AsStated ==
    AskedCanSkip => (applied.result <=> BuiltFrom(ListedPrimitives, applied.arguments[1]))

\* C23: CanSkip is true exactly for the static types built from Bool, Void,
\* Address, MetaType, Block, String, Character, the number types, the path
\* types and the never type with the array, dictionary and optional
\* constructors; it is false for every type in which a capability type occurs
\* and for every composite, interface, reference, AnyStruct and deprecated type.
C23_CanSkip ==
    AskedCanSkip =>
        LET valueType == applied.arguments[1]
        IN  /\ applied.result <=> BuiltFrom(ListedPrimitives \cup {"Never"}, valueType)
            /\ CapabilityOccursIn(valueType) => ~applied.result
            /\ valueType.tag \in {"composite", "interface", "reference"} => ~applied.result
            /\ (valueType.tag = "primitive"
                    /\ valueType.name \in {"AnyStruct", "AnyResource", "AuthAccount",
                                            "AccountKey"}) => ~applied.result

C23_Witness ==
    /\ AskedCanSkip
    /\ applied.arguments[1] =
           DictionaryStaticType(PrimitiveStaticType("String"),
                                OptionalStaticType(PrimitiveStaticType("Never")))
    /\ applied.result

----------------------------------------------------------------------------
(* Claims about the text of a comment *)

\* the opening delimiter of a comment: the longest of the four that the
\* source starts with, or nothing
OpeningDelimiter(source) ==
    CASE StartsWith(source, <<"/", "*", "*">>) -> <<"/", "*", "*">>
      [] StartsWith(source, <<"/", "/", "/">>) -> <<"/", "/", "/">>
      [] StartsWith(source, <<"/", "*">>) -> <<"/", "*">>
      [] StartsWith(source, <<"/", "/">>) -> <<"/", "/">>
      [] OTHER -> <<>>

\* the source without its opening delimiter and, for a block comment that
\* ends with it, without the closing delimiter
WithoutOwnDelimiters(source) ==
    LET opening == OpeningDelimiter(source)
        rest == SubSeq(source, Len(opening) + 1, Len(source))
        n == Len(rest)
    IN  IF /\ StartsWith(source, <<"/", "*">>)
           /\ n >= 2
           /\ rest[n - 1] = "*"
           /\ rest[n] = "/"
        THEN SubSeq(rest, 1, n - 2)
        ELSE rest

\* C24: Text returns the source of the comment with only its own delimiters
\* removed: one opening delimiter, the longest that the source starts with,
\* and for block comments only the closing delimiter; every other character
\* is preserved, in order.
C24_AsStated ==
    ("Text" \in comment.called /\ OpeningDelimiter(comment.c.source) # <<>>) =>
        comment.text = WithoutOwnDelimiters(comment.c.source)

----------------------------------------------------------------------------
(* Claims about matchers *)

\* some argument has a type that is no subtype of the parameter type of the
\* function the matcher was made with
SomeArgumentMismatches ==
    \E i \in DOMAIN matcherTest.arguments :
        /\ matcherTest.matcher.parameterType # "AnyStruct"
        /\ matcherTest.arguments[i].type # matcherTest.matcher.parameterType

InvocationsOfTestFunc ==
    Cardinality({i \in DOMAIN matcherTest.trace : matcherTest.trace[i] = "invoke"})

MatcherTestEnded == matcherTest.at \in {"returned", "panicked"}

\* C25: the test function of a matcher checks the static type of each argument
\* against the parameter type of the wrapped function before it runs that
\* function; when an argument is no subtype it raises a TypeMismatchError and
\* the wrapped function is not invoked; otherwise the wrapped function is
\* invoked exactly once and what it ends with is passed on.
C25_ValidatesArguments ==
    matcherTest.at # "idle" =>
        /\ \A i \in DOMAIN matcherTest.trace :
               matcherTest.trace[i] = "invoke" =>
                   /\ i = Len(matcherTest.arguments) + 1
                   /\ \A j \in 1..(i - 1) : matcherTest.trace[j] = "check"
        /\ MatcherTestEnded =>
               IF SomeArgumentMismatches
               THEN /\ matcherTest.outcome.kind = "TypeMismatchError"
                    /\ InvocationsOfTestFunc = 0
               ELSE /\ InvocationsOfTestFunc = 1
                    /\ matcherTest.outcome =
                           TestFunc(matcherTest.matcher, matcherTest.arguments[1])

C25_Witness ==
    /\ matcherTest.at = "panicked"
    /\ matcherTest.matcher.name = "newMatcher"
    /\ matcherTest.arguments = <<TestStringValue("failed")>>
    /\ matcherTest.trace = <<"check">>
    /\ matcherTest.outcome.kind = "TypeMismatchError"

\* the tested value and what the matcher was made with
TestedValue == matcherTest.arguments[1]

MatcherSucceeds == matcherTest.outcome = Returned(TestBoolValue(TRUE))

IsCollection(value) == value.type \in {"Array", "Dictionary"}

ElementsOrKeys(value) == {value.elements[i] : i \in DOMAIN value.elements}

\* C26: beEmpty, haveElementCount(n) and contain(e) succeed exactly when the
\* tested value is an array or a dictionary that has no elements, has exactly
\* n elements, or holds an element (array) or key (dictionary) equal to e;
\* for any other tested value the matcher does not succeed.
C26_CollectionMatchers ==
    MatcherTestEnded =>
        /\ matcherTest.matcher.name = "beEmpty" =>
               (MatcherSucceeds <=>
                    IsCollection(TestedValue) /\ ElementsOrKeys(TestedValue) = {})
        /\ matcherTest.matcher.name = "haveElementCount" =>
               (MatcherSucceeds <=>
                    /\ IsCollection(TestedValue)
                    /\ Cardinality(DOMAIN TestedValue.elements) = matcherTest.matcher.other.n)
        /\ matcherTest.matcher.name = "contain" =>
               (MatcherSucceeds <=>
                    /\ IsCollection(TestedValue)
                    /\ matcherTest.matcher.other \in ElementsOrKeys(TestedValue))

C26_Witness ==
    /\ MatcherTestEnded
    /\ matcherTest.matcher = Matcher("contain", "AnyStruct", TestIntValue(2))
    /\ TestedValue = TestDictionaryOf(<<TestStringValue("failed"), TestIntValue(2)>>)
    /\ MatcherSucceeds

----------------------------------------------------------------------------
(* Claims about the events of the capability migration *)

\* the events of the last call are the last that the reporter received
ReceivedLast(events) ==
    /\ Len(reported) >= Len(events)
    /\ SubSeq(reported, Len(reported) - Len(events) + 1, Len(reported)) = events

\* C27: with a reporter, a call of Migrate emits at most one event: exactly
\* one, MigratedPathCapability or MissingCapabilityID, when the value is a path
\* capability and the call does not abort, and none when the value is no path
\* capability; MissingBorrowType is never emitted; every event carries the
\* account address of the storage key and the address and path of the
\* capability, and a MigratedPathCapability event carries the id and the
\* borrow type of the returned replacement.
C27_ReporterEvents ==
    (Called /\ migration.Reporter # NilReporter) =>
        LET events == LastResult.events
        IN  /\ Len(events) <= 1
            /\ ReceivedLast(events)
            /\ (CalledOnPathCapability /\ LastResult.outcome # "abort") =>
                   /\ Len(events) = 1
                   /\ events[1].event \in {"MigratedPathCapability", "MissingCapabilityID"}
                   /\ (events[1].event = "MigratedPathCapability") <=>
                          LastResult.outcome = "replaced"
            /\ ~CalledOnPathCapability => events = <<>>
            /\ \A i \in DOMAIN events :
                   /\ events[i].event # "MissingBorrowType"
                   /\ events[i].accountAddress = StorageKey(lastCall.cell).Address
                   /\ events[i].addressPath.Address = LastValue.address
                   /\ events[i].addressPath.Path = LastValue.Path
                   /\ events[i].event = "MigratedPathCapability" =>
                          /\ events[i].capabilityID = LastResult.value.ID
                          /\ events[i].borrowType = LastResult.value.BorrowType

C27_Witness ==
    /\ Called
    /\ migration.Reporter = "recording"
    /\ LastResult.outcome = "nochange"
    /\ LastValue.kind = "pathcap"
    /\ LastValue.address # StorageKey(lastCall.cell).Address
    /\ Len(reported) = 1
    /\ reported[1].event = "MissingCapabilityID"

----------------------------------------------------------------------------
(* Path capabilities are compared with values and with their clones *)

MaxCompared == 3

ComparedCapabilities ==
    {PathCapabilityValue(NilType, 1, PathValue(PathDomainPublic, "x")),
     PathCapabilityValue(RefFoo, 1, PathValue(PathDomainPublic, "x")),
     PathCapabilityValue(RefFoo, 2, PathValue(PathDomainPublic, "x")),
     PathCapabilityValue(RefFoo, 1, PathValue(PathDomainStorage, "x"))}

ComparedValues ==
    ComparedCapabilities \cup {NewUnmeteredCapabilityValue(7, 1, RefFoo), BoolValue(TRUE)}

\* one call v.Equal(other) and its result; cloned: other is v.Clone()
Comparison(v, other, cloned, equal) ==
    [v |-> v, other |-> other, cloned |-> cloned, equal |-> equal]

\* v.Equal(interpreter, locationRange, other)
CallEqual ==
    /\ applied.function = "Equal"
    /\ Cardinality(applied.result) < MaxCompared
    /\ \E v \in ComparedCapabilities, other \in ComparedValues :
           applied' = Application("Equal", <<>>,
                          applied.result \cup {Comparison(v, other, FALSE, Equal(v, other))})
    /\ UNCHANGED <<storage, migrationVars, member, testVars, semaChecker, hostCall,
                   encoder, transfer, comment, matcherTest>>

\* v.Clone(interpreter).Equal(interpreter, locationRange, v)
CallEqualOfClone ==
    /\ applied.function = "Equal"
    /\ Cardinality(applied.result) < MaxCompared
    /\ \E v \in ComparedCapabilities :
           applied' = Application("Equal", <<>>,
                          applied.result \cup {Comparison(Clone(v), v, TRUE, Equal(Clone(v), v))})
    /\ UNCHANGED <<storage, migrationVars, member, testVars, semaChecker, hostCall,
                   encoder, transfer, comment, matcherTest>>

InitEqual ==
    /\ storage = [c \in Cells |-> NoValue]
    /\ storage0 = storage
    /\ afterFirstRun = storage
    /\ migration = CapabilityValueMigration({}, NilReporter)
    /\ reported = <<>>
    /\ run = 0
    /\ pos = 0
    /\ phase = "idle"
    /\ lastCall = NoCall
    /\ member = NoMember
    /\ TestIdle
    /\ semaChecker = NoChecker
    /\ hostCall = <<>>
    /\ encoder = NoEncoder
    /\ transfer = NoTransfer
    /\ comment = NoComment
    /\ applied = Application("Equal", <<>>, {})
    /\ matcherTest = NoMatcherTest

NextEqual == CallEqual \/ CallEqualOfClone

SpecEqual == InitEqual /\ [][NextEqual]_vars

\* the calls of Equal made so far
Compared == IF applied.function = "Equal" THEN applied.result ELSE {}

\* the borrow types are both absent, or both present and equal
SameBorrowType(v, other) ==
    \/ v.BorrowType = NilType /\ other.BorrowType = NilType
    \/ /\ v.BorrowType # NilType
       /\ other.BorrowType # NilType
       /\ v.BorrowType = other.BorrowType

\* C28: Equal is reflexive, symmetric and transitive on path capabilities and
\* holds exactly when the addresses are equal, the paths are equal and the
\* borrow types are both absent or both present and equal; a path capability
\* is Equal to no value of another kind, and the clone of a path capability
\* is Equal to the original.
C28_EqualIsEquivalence ==
    \A r \in Compared :
        /\ r.v.kind = "pathcap"
        /\ r.other.kind = "pathcap" =>
               (r.equal <=> /\ r.v.address = r.other.address
                            /\ r.v.Path = r.other.Path
                            /\ SameBorrowType(r.v, r.other))
        /\ r.other.kind # "pathcap" => ~r.equal
        /\ r.cloned => r.equal
        /\ r.v = r.other => r.equal
        /\ \A s \in Compared :
               /\ (s.v = r.other /\ s.other = r.v) => s.equal = r.equal
               /\ \A t \in Compared :
                      (/\ r.equal
                       /\ s.equal
                       /\ s.v = r.other
                       /\ t.v = r.v
                       /\ t.other = s.other) => t.equal

C28_Witness ==
    \E r, s, t \in Compared :
        /\ r.cloned /\ r.equal
        /\ ~s.cloned
        /\ s.v.address = s.other.address
        /\ s.v.Path = s.other.Path
        /\ s.v.BorrowType = NilType
        /\ s.other.kind = "pathcap"
        /\ s.other.BorrowType # NilType
        /\ ~s.equal
        /\ t.other.kind = "idcap"
        /\ t.v.address = t.other.address
        /\ t.v.BorrowType = t.other.BorrowType
        /\ ~t.equal

----------------------------------------------------------------------------
(* Claims about the contract value of the Test standard library *)

\* every function variable and function type that initTest assigns is assigned
FullGlobals ==
    [functions |-> {"assert", "fail"} \cup RangeOf(MatcherFunctionNames),
     emulatorBackend |-> TRUE,
     newEmulatorBlockchainFunctionType |-> TRUE]

\* C29: NewTestContract reads the function variables only after initTest has
\* completed: each of the 12 entries it writes into the function table of the
\* contract value is an initialized function value; and when the invocation of
\* the constructor fails, the error is returned and no function is injected.
C29_InjectedAfterInit ==
    /\ Cardinality(TestFunctionNames) = 12
    /\ \A p \in Procs :
           pc[p] \in {"construct", "inject"} =>
               /\ onceDone
               /\ \A q \in Procs : pc[q] # "init"
               /\ testGlobals = FullGlobals
    /\ contractValue.status = "ok" =>
           \A n \in TestFunctionNames : contractValue.Functions[n]
    /\ contractValue.status = "error" =>
           \A n \in TestFunctionNames : ~contractValue.Functions[n]

C29_Witness ==
    /\ contractValue.status = "ok"
    /\ \A n \in TestFunctionNames : contractValue.Functions[n]
    /\ observed.callee = "NewTestContract"
    /\ initRuns = 1
    /\ \E p \in Procs : pc[p] = "lock"

----------------------------------------------------------------------------
(* The Test standard library when the source of the Test contract fails *)

\* sources of the Test contract on which initTest panics
FailingSources == {"unparsable", "illtyped"}

InitTestFailing ==
    /\ storage = [c \in Cells |-> BoolValue(TRUE)]
    /\ storage0 = storage
    /\ afterFirstRun = storage
    /\ migration = CapabilityValueMigration({}, NilReporter)
    /\ reported = <<>>
    /\ run = 0
    /\ pos = 0
    /\ phase = "idle"
    /\ lastCall = NoCall
    /\ member = NoMember
    /\ pc = [p \in Procs |-> "idle"]
    /\ callee = [p \in Procs |-> ""]
    /\ initStep = [p \in Procs |-> 0]
    /\ onceDone = FALSE
    /\ onceM = 0
    /\ initRuns = 0
    /\ testContract \in FailingSources
    /\ testContractChecker = NilChecker
    /\ testContractType = NilContractType
    /\ testContractInitializerTypes = NilInitializerTypes
    /\ testGlobals = NilGlobals
    /\ observed = NoObservation
    /\ contractValue = NoContractValue
    /\ LangIdle

SpecTestFailing == InitTestFailing /\ [][NextTest]_vars

====
